---- MODULE Spec2Model ----
(***************************************************************************)
(* jackknife: the environment provisioner, the execution dispatcher and    *)
(* the chain executor of src/jackknife/cli.py as a state machine.          *)
(*                                                                         *)
(* Strings that the code inspects character by character (the chain        *)
(* argument) are sequences of one-character strings.  A process is one run *)
(* of main(); its module globals (SHARE_ENVIRONMENTS, the two caches,      *)
(* sys.argv) are per process, the environments directory is shared.        *)
(***************************************************************************)
EXTENDS Integers, Sequences, FiniteSets, TLC

(***************************************************************************)
(* Bounds and small input sets                                             *)
(***************************************************************************)
MaxChain == 2

\* names of the tool scripts present in TOOLS_DIR (TOOLS_DIR/<name>.py)
TOOLS_DIR == {<<"a">>, <<"b">>, <<"c">>}

\* exit codes a tool may report
ToolCodes == {0, 1, 2}

\* a manifest that does not exist, and the absent path (Python's None)
NoFile == [exists |-> FALSE, lines |-> <<>>]
None == <<>>

(***************************************************************************)
(* Python string helpers over sequences of characters                      *)
(***************************************************************************)
IsSpace(ch) == ch = " "

Contains(s, ch) == \E i \in 1..Len(s) : s[i] = ch

RECURSIVE LStrip(_)
LStrip(s) == IF s # <<>> /\ IsSpace(Head(s)) THEN LStrip(Tail(s)) ELSE s

RECURSIVE RStrip(_)
RStrip(s) ==
    IF s # <<>> /\ IsSpace(s[Len(s)]) THEN RStrip(SubSeq(s, 1, Len(s) - 1)) ELSE s

\* str.strip()
Strip(s) == RStrip(LStrip(s))

\* str.split() with no separator: maximal runs of non-whitespace
RECURSIVE SplitWs(_, _, _)
SplitWs(s, cur, acc) ==
    IF s = <<>> THEN (IF cur = <<>> THEN acc ELSE Append(acc, cur))
    ELSE IF IsSpace(Head(s))
         THEN SplitWs(Tail(s), <<>>, IF cur = <<>> THEN acc ELSE Append(acc, cur))
         ELSE SplitWs(Tail(s), Append(cur, Head(s)), acc)

Split(s) == SplitWs(s, <<>>, <<>>)

\* index of the first occurrence of ch in s, 0 when absent
RECURSIVE IndexFrom(_, _, _)
IndexFrom(s, ch, i) ==
    IF i > Len(s) THEN 0 ELSE IF s[i] = ch THEN i ELSE IndexFrom(s, ch, i + 1)

IndexOf(s, ch) == IndexFrom(s, ch, 1)

RECURSIVE Repeat(_, _)
Repeat(ch, n) == IF n = 0 THEN <<>> ELSE <<ch>> \o Repeat(ch, n - 1)

\* subprocess.list2cmdline for one argument without whitespace: every double
\* quote is escaped with a backslash and the backslashes before it are doubled
RECURSIVE QuoteArg(_, _, _)
QuoteArg(s, bs, out) ==
    IF s = <<>> THEN out \o Repeat("\\", bs)
    ELSE IF Head(s) = "\\" THEN QuoteArg(Tail(s), bs + 1, out)
    ELSE IF Head(s) = "\"" THEN QuoteArg(Tail(s), 0, out \o Repeat("\\", 2 * bs) \o <<"\\", "\"">>)
    ELSE QuoteArg(Tail(s), 0, out \o Repeat("\\", bs) \o <<Head(s)>>)

RECURSIVE JoinWith(_, _)
JoinWith(parts, sep) ==
    IF parts = <<>> THEN <<>>
    ELSE IF Len(parts) = 1 THEN parts[1]
    ELSE parts[1] \o sep \o JoinWith(Tail(parts), sep)

\* subprocess.list2cmdline(args): the arguments come from split(), so none
\* holds whitespace or is empty and none is wrapped in quotes
list2cmdline(args) ==
    JoinWith([i \in 1..Len(args) |-> QuoteArg(args[i], 0, <<>>)], <<" ">>)

(***************************************************************************)
(* parse_tool_chain                                                        *)
(***************************************************************************)
\* the character loop: split at commas that are not inside brackets
RECURSIVE SplitParts(_, _, _, _)
SplitParts(s, parts, current, in_brackets) ==
    IF s = <<>> THEN (IF current # <<>> THEN Append(parts, current) ELSE parts)
    ELSE LET ch == Head(s) IN
         IF ch = "[" THEN SplitParts(Tail(s), parts, Append(current, ch), TRUE)
         ELSE IF ch = "]" THEN SplitParts(Tail(s), parts, Append(current, ch), FALSE)
         ELSE IF ch = "," /\ ~in_brackets
              THEN IF current # <<>>
                   THEN SplitParts(Tail(s), Append(parts, current), <<>>, in_brackets)
                   ELSE SplitParts(Tail(s), parts, current, in_brackets)
         ELSE SplitParts(Tail(s), parts, Append(current, ch), in_brackets)

\* variant: the bracketed arguments are dropped
ParsePart_bare(part) ==
    [name |-> Strip(SubSeq(part, 1, IF Contains(part, "[") THEN IndexOf(part, "[") - 1 ELSE Len(part))),
     args |-> <<>>]

\* one part: name[args] or a bare name
ParsePart(part) ==
    IF Contains(part, "[") /\ part[Len(part)] = "]"
    THEN LET k == IndexOf(part, "[")
             name == SubSeq(part, 1, k - 1)
             args_str == SubSeq(part, k + 1, Len(part) - 1)
         IN [name |-> Strip(name), args |-> Split(list2cmdline(Split(args_str)))]
    ELSE [name |-> Strip(part), args |-> <<>>]

parse_tool_chain(tool_chain_arg) ==
    LET parts == SplitParts(tool_chain_arg, <<>>, <<>>, FALSE)
    IN [i \in 1..Len(parts) |-> ParsePart(parts[i])]

(***************************************************************************)
(* The environments directory ENVS_DIR: one entry per tool name.           *)
(*   kind "none": no entry; "dir": a primary environment (interp: the      *)
(*   interpreter binary is there; pkgs: what the package listing reports); *)
(*   "link": a symlink or junction to the entry `target`.                  *)
(***************************************************************************)
NoEnv == [kind |-> "none", interp |-> FALSE, pkgs |-> {}, target |-> None]
DirEnv(interp, pkgs) == [kind |-> "dir", interp |-> interp, pkgs |-> pkgs, target |-> None]
LinkEnv(target) == [kind |-> "link", interp |-> FALSE, pkgs |-> {}, target |-> target]

\* the directory a path leads to, following links; None when there is none
RECURSIVE ResolveN(_, _, _)
ResolveN(f, n, fuel) ==
    IF f[n].kind = "dir" THEN n
    ELSE IF f[n].kind = "link" /\ fuel > 0 THEN ResolveN(f, f[n].target, fuel - 1)
    ELSE None

Resolve(f, n) == ResolveN(f, n, Cardinality(TOOLS_DIR))

\* env_dir.is_dir()
IsDir(f, n) == Resolve(f, n) # None

\* get_python_executable(env_path).is_file() / .exists()
IsFile(f, n) == IsDir(f, n) /\ f[Resolve(f, n)].interp

\* what `uv pip list --python <interpreter of n>` reports
RealPkgs(f, n) == f[Resolve(f, n)].pkgs

\* get_python_executable(ENVS_DIR / name), and the script path
get_python_executable(name) == <<"envs/">> \o name \o <<"/bin/python">>
ScriptPath(name) == <<"tools/">> \o name \o <<".py">>

(***************************************************************************)
(* State                                                                   *)
(***************************************************************************)
VARIABLES
    fs,               \* ENVS_DIR: tool name -> entry (shared by all processes)
    manifest,         \* TOOLS_DIR/<name>.requirements.txt: name -> [exists, lines]
    reads,            \* process -> the calls of parse_requirements, in order, each with
                      \*            the file as it was and what was returned (history)
    pc,               \* process -> position
    cmdline,          \* process -> the command line and environment it was started with
    SHARE_ENVIRONMENTS,   \* process -> the module global
    requirements_cache,   \* process -> (manifest of tool -> RequirementSet)
    environment_packages, \* process -> (interpreter of env -> installed set)
    argv,             \* process -> sys.argv
    share_environments,   \* process -> main's local
    tool_chain,       \* process -> parsed chain (one entry in single-tool mode)
    chain_mode,       \* process -> "," in args.tool_arg
    idx,              \* process -> position in the chain, from 1
    final_exit_code,  \* process -> main's local
    exited,           \* process -> <<>> or <<code given to sys.exit>>
    call,             \* process -> locals of the running run_single_tool call
    cmds,             \* process -> external commands and link calls of that call, in order,
                      \*            each with its outcome (history)
    ran,              \* process -> the entries run_single_tool was called with, in order
    seen              \* process -> what the calls returned so far (history)

shared == <<fs, manifest, reads>>
globals == <<SHARE_ENVIRONMENTS, requirements_cache, environment_packages, argv>>
mainvars == <<cmdline, share_environments, tool_chain, chain_mode, idx, final_exit_code, exited, ran, seen>>
loopvars == <<idx, final_exit_code, exited, seen>>
config == <<cmdline, share_environments, tool_chain, chain_mode>>
vars == <<fs, manifest, reads, pc, cmdline, SHARE_ENVIRONMENTS, requirements_cache,
          environment_packages, argv, share_environments, tool_chain, chain_mode,
          idx, final_exit_code, exited, call, cmds, ran, seen>>

Procs == DOMAIN pc

\* the empty cache (a dict with no key)
EmptyDict == [k \in {} |-> {}]

\* variant: nothing is stored
DictSet_forget(d, k, v) == d

\* d with d[k] = v
DictSet(d, k, v) == (k :> v) @@ d

\* variant: nothing is removed
DictKeep(d, k) == d

\* d.pop(k, None)
DictPop(d, k) == [j \in DOMAIN d \ {k} |-> d[j]]

(***************************************************************************)
(* parse_requirements: the RequirementSet of a tool's manifest and the     *)
(* cache after the call                                                    *)
(***************************************************************************)
\* what reading a file does: NoFault, or OSError once `after` lines were read
\* (after = 0: open() itself fails)
NoFault == [fails |-> FALSE, after |-> 0]
FaultAfter(k) == [fails |-> TRUE, after |-> k]

\* the read that follows `got` lines raises OSError
Raises(fault, got) == fault.fails /\ got >= fault.after

\* line 123: the characters at which the package name ends
Specifiers == {"=", ">", "<", "!", "~", "["}

\* line.split('=')[0].split('>')[0]. ... .split('[')[0]
RECURSIVE BeforeSpecifier(_)
BeforeSpecifier(s) ==
    IF s = <<>> \/ Head(s) \in Specifiers THEN <<>>
    ELSE <<Head(s)>> \o BeforeSpecifier(Tail(s))

\* str.lower() on the letters of the manifests
Lower(s) ==
    [i \in 1..Len(s) |-> IF s[i] = "P" THEN "p" ELSE IF s[i] = "Q" THEN "q" ELSE s[i]]

\* variant: comment lines are read like any other line
Skipped_blank(processed_line) == processed_line = <<>>

\* line 113: comments and empty lines are skipped
Skipped(processed_line) == processed_line = <<>> \/ Head(processed_line) = "#"

\* lines 116-119: while the line ends with a backslash the next line of the
\* file is joined to it; next(f, '') gives '' at the end of the file
RECURSIVE Continued(_, _, _, _)
Continued(processed_line, lines, got, fault) ==
    IF processed_line # <<>> /\ processed_line[Len(processed_line)] = "\\"
    THEN IF Raises(fault, got)
         THEN [raised |-> TRUE, line |-> processed_line, got |-> got]
         ELSE LET next_line == IF got < Len(lines) THEN Strip(lines[got + 1]) ELSE <<>>
              IN Continued(Strip(SubSeq(processed_line, 1, Len(processed_line) - 1))
                               \o <<" ">> \o next_line,
                           lines, IF got < Len(lines) THEN got + 1 ELSE got, fault)
    ELSE [raised |-> FALSE, line |-> processed_line, got |-> got]

\* lines 109-130: the loop over the lines of the open file; an OSError ends
\* it (except OSError: pass) with the requirements gathered so far.  The
\* locals processed_line, joined and package are each bound once to their
\* value, as the assignments of the loop body are.
RECURSIVE ReadRequirements(_, _, _, _)
ReadRequirements(lines, got, fault, requirements) ==
    IF Raises(fault, got) \/ got >= Len(lines) THEN requirements
    ELSE UNION {
           IF Skipped(processed_line)
           THEN ReadRequirements(lines, got + 1, fault, requirements)
           ELSE UNION {
                  UNION {
                    IF joined.raised THEN requirements
                    ELSE ReadRequirements(lines, joined.got, fault,
                                          IF package # <<>>
                                          THEN requirements \cup {Lower(package)}
                                          ELSE requirements)
                    : package \in {Strip(BeforeSpecifier(joined.line))} }
                  : joined \in {Continued(processed_line, lines, got + 1, fault)} }
           : processed_line \in {Strip(lines[got + 1])} }

\* hit: the result came from _requirements_cache and the file was not touched
parse_requirements(cache, mf, name, fault) ==
    IF name \in DOMAIN cache
    THEN [reqs |-> cache[name], cache |-> cache, hit |-> TRUE]
    ELSE LET requirements == IF ~mf[name].exists THEN {}
                             ELSE ReadRequirements(mf[name].lines, 0, fault, {})
         IN [reqs |-> requirements, cache |-> DictSet(cache, name, requirements),
             hit |-> FALSE]

\* one entry of reads
Request(mf, name, fault, parsed) ==
    [path |-> name, file |-> mf[name], fault |-> fault, hit |-> parsed.hit,
     reqs |-> parsed.reqs]

(***************************************************************************)
(* get_installed_packages for the interpreter of environment e.            *)
(* out is what the outside world does on a cache miss:                     *)
(*   "nouv"  shutil.which finds no uv: OSError raised to the caller        *)
(*   "ok"    the listing exits 0                                           *)
(*   "fail"  the listing exits non-zero                                    *)
(*   "error" subprocess.run itself raises                                  *)
(***************************************************************************)
ListOutcomes == {"nouv", "ok", "fail", "error"}

\* one entry of the log of a call: an external operation on environment env
\* and how it ended; with result "nouv" no command was run
Op(op, env, result) == [op |-> op, env |-> env, result |-> result]

get_installed_packages(cache, f, e, out) ==
    IF e \in DOMAIN cache
    THEN [raised |-> FALSE, pkgs |-> cache[e], cache |-> cache, log |-> <<>>]
    ELSE IF out = "nouv"
    THEN [raised |-> TRUE, pkgs |-> {}, cache |-> cache, log |-> <<Op("list", e, out)>>]
    ELSE IF out = "error"
    THEN [raised |-> FALSE, pkgs |-> {}, cache |-> cache, log |-> <<Op("list", e, out)>>]
    ELSE LET packages == IF out = "ok" THEN RealPkgs(f, e) ELSE {}
         IN [raised |-> FALSE, pkgs |-> packages, cache |-> DictSet(cache, e, packages),
             log |-> <<Op("list", e, out)>>]

(***************************************************************************)
(* find_compatible_environment                                             *)
(***************************************************************************)
\* the entries ENVS_DIR.iterdir() yields, and the orders it may yield them in
Entries(f) == {n \in DOMAIN f : f[n].kind # "none"}

Orders(S) == {o \in [1..Cardinality(S) -> S] : \A i, j \in DOMAIN o : o[i] = o[j] => i = j}

\* the environments whose packages a scan for `tool` may have to list
Unlisted(f, pcache, tool) == {n \in Entries(f) : n # tool /\ IsFile(f, n) /\ n \notin DOMAIN pcache}

\* get_installed_packages(e) in the scan; cached entries need no outcome
Listing(pcache, f, e, outs) ==
    get_installed_packages(pcache, f, e, IF e \in DOMAIN outs THEN outs[e] ELSE "ok")

\* the loop over the directory entries; an exception raised inside it ends
\* the scan with no environment
RECURSIVE ScanEnvs(_, _, _, _, _, _, _)
ScanEnvs(order, tool, reqs, pcache, f, outs, log) ==
    IF order = <<>> THEN [ret |-> None, pcache |-> pcache, log |-> log]
    ELSE LET env_dir == Head(order) IN
         IF ~IsDir(f, env_dir) \/ env_dir = tool \/ ~IsFile(f, env_dir)
         THEN ScanEnvs(Tail(order), tool, reqs, pcache, f, outs, log)
         ELSE LET got == Listing(pcache, f, env_dir, outs) IN
              IF got.raised THEN [ret |-> None, pcache |-> got.cache, log |-> log \o got.log]
              ELSE IF reqs \subseteq got.pkgs
              THEN [ret |-> env_dir, pcache |-> got.cache, log |-> log \o got.log]
              ELSE ScanEnvs(Tail(order), tool, reqs, got.cache, f, outs, log \o got.log)

\* variant: an empty RequirementSet is scanned for like any other
FindShared_scan_empty(rcache, pcache, mf, f, tool, order, outs) ==
    LET parsed == parse_requirements(rcache, mf, tool, NoFault)
        scan == ScanEnvs(order, tool, parsed.reqs, pcache, f, outs, <<>>)
    IN [ret |-> scan.ret, rcache |-> parsed.cache, pcache |-> scan.pcache, log |-> scan.log,
        reads |-> <<Request(mf, tool, NoFault, parsed)>>]

\* variant: the resolver never finds an environment
FindShared_none(rcache, pcache, mf, f, tool, order, outs) ==
    [ret |-> None, rcache |-> rcache, pcache |-> pcache, log |-> <<>>, reads |-> <<>>]

\* lines 198-233: sharing is on; in the runs of a tool the manifest is read
\* without an I/O failure
FindShared(rcache, pcache, mf, f, tool, order, outs) ==
    LET parsed == parse_requirements(rcache, mf, tool, NoFault)
        request == <<Request(mf, tool, NoFault, parsed)>>
    IN
    IF parsed.reqs = {}
    THEN [ret |-> None, rcache |-> parsed.cache, pcache |-> pcache, log |-> <<>>,
          reads |-> request]
    ELSE LET scan == ScanEnvs(order, tool, parsed.reqs, pcache, f, outs, <<>>)
         IN [ret |-> scan.ret, rcache |-> parsed.cache, pcache |-> scan.pcache,
             log |-> scan.log, reads |-> request]

\* variant: the sharing switch is ignored
find_compatible_environment_always(share, rcache, pcache, mf, f, tool, order, outs) ==
    LET parsed == parse_requirements(rcache, mf, tool, NoFault)
        scan == ScanEnvs(order, tool, parsed.reqs, pcache, f, outs, <<>>)
        request == <<Request(mf, tool, NoFault, parsed)>>
    IN IF parsed.reqs = {}
       THEN [ret |-> None, rcache |-> parsed.cache, pcache |-> pcache, log |-> <<>>,
             reads |-> request]
       ELSE [ret |-> scan.ret, rcache |-> parsed.cache, pcache |-> scan.pcache,
             log |-> scan.log, reads |-> request]

find_compatible_environment(share, rcache, pcache, mf, f, tool, order, outs) ==
    IF ~share
    THEN [ret |-> None, rcache |-> rcache, pcache |-> pcache, log |-> <<>>, reads |-> <<>>]
    ELSE FindShared(rcache, pcache, mf, f, tool, order, outs)

(***************************************************************************)
(* Inputs of a run                                                         *)
(***************************************************************************)
Req(lines) == [exists |-> TRUE, lines |-> lines]

\* the manifests of the tools: identical requirements; a superset and a
\* subset; no manifest and a manifest of comments only
Manifests(ma, mb) == (<<"a">> :> ma) @@ (<<"b">> :> mb) @@ (<<"c">> :> Req(<< <<"p">> >>))

ManifestChoices ==
    { Manifests(Req(<< <<"p">> >>), Req(<< <<"p">> >>)),
      Manifests(Req(<< <<"p">>, <<"q">> >>), Req(<< <<"p">> >>)),
      Manifests(NoFile, Req(<< <<"#", "p">> >>)) }

\* ENVS_DIR when the process starts: tool c was provisioned by an earlier run
InitialEnvs == (<<"a">> :> NoEnv) @@ (<<"b">> :> NoEnv) @@ (<<"c">> :> DirEnv(TRUE, {<<"p">>}))

\* the entries a user means: a tool with two arguments, a tool with none,
\* and "n", which names no script
Entry(name, args) == [name |-> name, args |-> args]

Wanted == { Entry(<<"a">>, << <<"x">>, <<"y">> >>), Entry(<<"b">>, <<>>), Entry(<<"n">>, <<>>) }

\* an entry as typed in a chain: name[arg1 arg2], or the bare name
Typed(e) ==
    IF e.args = <<>> THEN e.name ELSE e.name \o <<"[">> \o JoinWith(e.args, <<" ">>) \o <<"]">>

\* the chains typed: one to MaxChain entries, joined with commas
Chains == UNION { [1..k -> Wanted] : k \in 1..MaxChain }

TypedChain(es) == JoinWith([i \in 1..Len(es) |-> Typed(es[i])], <<",">>)

\* the REMAINDER arguments; main ignores them in chain mode
RestArgs(es) == IF Len(es) > 1 THEN {<<>>} ELSE {<<>>, << <<"x">> >>}

\* wanted is what the user means by tool_arg; the program never reads it
CmdLines ==
    UNION { { [wanted |-> es, tool_arg |-> TypedChain(es), tool_args |-> r,
               continue_on_error |-> c, no_share |-> n] :
                r \in RestArgs(es), c \in BOOLEAN, n \in BOOLEAN } : es \in Chains }

\* the tool has not ended
NoOutcome == [kind |-> "none", isint |-> FALSE, text |-> FALSE, val |-> 0]

NoCall == [tool |-> None, args |-> <<>>, route |-> "none", compatible_env |-> None,
           original_argv |-> <<>>, module |-> FALSE, tool_func |-> "None", command |-> <<>>,
           outcome |-> NoOutcome, script |-> "none"]

\* nothing returned yet
NoneSeen == [returned |-> 0, last_nonzero |-> 0]

\* the state when main is entered, the command line drawn from lines
InitWith(procs, lines) ==
    /\ fs = InitialEnvs
    /\ manifest \in ManifestChoices
    /\ pc = [p \in procs |-> "start"]
    /\ reads = [p \in procs |-> <<>>]
    /\ cmdline \in [procs -> lines]
    \* line 50: the default comes from the environment variable
    /\ SHARE_ENVIRONMENTS \in [procs -> BOOLEAN]
    /\ requirements_cache = [p \in procs |-> EmptyDict]
    /\ environment_packages = [p \in procs |-> EmptyDict]
    /\ argv = [p \in procs |-> << <<"jackknife">>, cmdline[p].tool_arg >> \o cmdline[p].tool_args]
    /\ share_environments = [p \in procs |-> TRUE]
    /\ tool_chain = [p \in procs |-> <<>>]
    /\ chain_mode = [p \in procs |-> FALSE]
    /\ idx = [p \in procs |-> 1]
    /\ final_exit_code = [p \in procs |-> 0]
    /\ exited = [p \in procs |-> <<>>]
    /\ call = [p \in procs |-> NoCall]
    /\ cmds = [p \in procs |-> <<>>]
    /\ ran = [p \in procs |-> <<>>]
    /\ seen = [p \in procs |-> NoneSeen]

InitFor(procs) == InitWith(procs, CmdLines)

Init == InitFor({"main"})

(***************************************************************************)
(* main: startup check, argument parsing, and what the chain loop does     *)
(* when run_single_tool returns                                            *)
(***************************************************************************)
\* variant: the flag is not read
ArgsShare_ignored(c) == TRUE

\* args.share_environments: a store_false option defaults to True
ArgsShare(c) == ~c.no_share

\* hasattr(args, "share_environments"): argparse always sets the attribute
HasShareAttr(c) == TRUE

\* lines 710-712
ShareSetting(global, c) == IF HasShareAttr(c) THEN ArgsShare(c) ELSE global

\* variant: the first non-zero code is kept
NextFinal_first(final, exit_code) == IF final # 0 THEN final ELSE exit_code

\* lines 744-745
NextFinal(final, exit_code) == IF exit_code # 0 THEN exit_code ELSE final

\* variant: the loop never breaks
Breaks_never(exit_code, continue_on_error) == FALSE

\* lines 744-750
Breaks(exit_code, continue_on_error) == exit_code # 0 /\ ~continue_on_error

\* the entries main hands to run_single_tool
ChainOf(c) ==
    IF Contains(c.tool_arg, ",") THEN parse_tool_chain(c.tool_arg)
    ELSE << [name |-> c.tool_arg, args |-> c.tool_args] >>

\* variant: the command line is parsed before uv is looked for
Main_parse_first(p) ==
    /\ pc[p] = "start"
    /\ UNCHANGED <<shared, globals, cmdline, call, cmds, ran, seen>>
    /\ LET c == cmdline[p] IN
       /\ share_environments' =
             [share_environments EXCEPT ![p] = ShareSetting(SHARE_ENVIRONMENTS[p], c)]
       /\ chain_mode' = [chain_mode EXCEPT ![p] = Contains(c.tool_arg, ",")]
       /\ tool_chain' = [tool_chain EXCEPT ![p] = ChainOf(c)]
       /\ idx' = [idx EXCEPT ![p] = 1]
       /\ final_exit_code' = [final_exit_code EXCEPT ![p] = 0]
       /\ \E uv_found \in BOOLEAN :
            IF ~uv_found
            THEN exited' = [exited EXCEPT ![p] = <<1>>] /\ pc' = [pc EXCEPT ![p] = "done"]
            ELSE exited' = exited /\ pc' = [pc EXCEPT ![p] = "loop"]

Main(p) ==
    /\ pc[p] = "start"
    /\ UNCHANGED <<shared, globals, cmdline, call, cmds, ran, seen>>
    /\ \E uv_found \in BOOLEAN :
         IF ~uv_found
         THEN /\ exited' = [exited EXCEPT ![p] = <<1>>]
              /\ pc' = [pc EXCEPT ![p] = "done"]
              /\ UNCHANGED <<share_environments, tool_chain, chain_mode, idx, final_exit_code>>
         ELSE LET c == cmdline[p] IN
              /\ share_environments' =
                    [share_environments EXCEPT ![p] = ShareSetting(SHARE_ENVIRONMENTS[p], c)]
              /\ chain_mode' = [chain_mode EXCEPT ![p] = Contains(c.tool_arg, ",")]
              /\ tool_chain' = [tool_chain EXCEPT ![p] = ChainOf(c)]
              /\ idx' = [idx EXCEPT ![p] = 1]
              /\ final_exit_code' = [final_exit_code EXCEPT ![p] = 0]
              /\ IF ChainOf(c) = <<>>
                 THEN /\ exited' = [exited EXCEPT ![p] = <<0>>]
                      /\ pc' = [pc EXCEPT ![p] = "done"]
                 ELSE /\ exited' = exited
                      /\ pc' = [pc EXCEPT ![p] = "loop"]

\* history: how many calls returned, and the last non-zero code among them
See(h, exit_code) ==
    [returned |-> h.returned + 1,
     last_nonzero |-> IF exit_code # 0 THEN exit_code ELSE h.last_nonzero]

\* run_single_tool returns exit_code to main (lines 742-769)
Return(p, exit_code) ==
    /\ seen' = [seen EXCEPT ![p] = See(@, exit_code)]
    /\ call' = [call EXCEPT ![p] = NoCall]
    /\ cmds' = [cmds EXCEPT ![p] = <<>>]
    /\ IF chain_mode[p]
       THEN LET fin == NextFinal(final_exit_code[p], exit_code)
                brk == Breaks(exit_code, cmdline[p].continue_on_error)
                stop == brk \/ idx[p] = Len(tool_chain[p])
            IN /\ final_exit_code' = [final_exit_code EXCEPT ![p] = fin]
               /\ idx' = [idx EXCEPT ![p] = IF brk THEN @ ELSE @ + 1]
               /\ exited' = [exited EXCEPT ![p] = IF stop THEN <<fin>> ELSE <<>>]
               /\ pc' = [pc EXCEPT ![p] = IF stop THEN "done" ELSE "loop"]
       ELSE /\ exited' = [exited EXCEPT ![p] = <<exit_code>>]
            /\ pc' = [pc EXCEPT ![p] = "done"]
            /\ UNCHANGED <<idx, final_exit_code>>

(***************************************************************************)
(* run_single_tool, up to the Exists check of setup_environment            *)
(***************************************************************************)
Log(p, entries) == cmds' = [cmds EXCEPT ![p] = @ \o entries]

\* variant: only a primary environment counts as existing
Exists_primary(f, name) == f[name].kind = "dir" /\ f[name].interp

\* lines 373-377: the interpreter is there, setup_environment returns at once
Exists(f, name) == IsFile(f, name)

Goto(p, where) == pc' = [pc EXCEPT ![p] = where]

\* variant: a missing script is reported but the call returns 0
RunSingleTool_missing_ok(p) ==
    /\ pc[p] = "loop"
    /\ LET entry == tool_chain[p][idx[p]] IN
       /\ SHARE_ENVIRONMENTS' = [SHARE_ENVIRONMENTS EXCEPT ![p] = share_environments[p]]
       /\ ran' = [ran EXCEPT ![p] = Append(@, entry)]
       /\ UNCHANGED <<shared, requirements_cache, environment_packages, argv, config>>
       /\ IF entry.name \notin TOOLS_DIR
          THEN Return(p, 0)
          ELSE /\ call' = [call EXCEPT ![p] =
                              [NoCall EXCEPT !.tool = entry.name, !.args = entry.args,
                                             !.route = IF Exists(fs, entry.name)
                                                       THEN "exists" ELSE "none"]]
               /\ Goto(p, IF Exists(fs, entry.name) THEN "dispatch" ELSE "share")
               /\ UNCHANGED <<cmds, loopvars>>

\* variant: the script is loaded without setting up its environment
RunSingleTool_unprepared(p) ==
    /\ pc[p] = "loop"
    /\ LET entry == tool_chain[p][idx[p]] IN
       /\ SHARE_ENVIRONMENTS' = [SHARE_ENVIRONMENTS EXCEPT ![p] = share_environments[p]]
       /\ ran' = [ran EXCEPT ![p] = Append(@, entry)]
       /\ UNCHANGED <<shared, requirements_cache, environment_packages, argv, config>>
       /\ IF entry.name \notin TOOLS_DIR
          THEN Return(p, 1)
          ELSE /\ call' = [call EXCEPT ![p] =
                              [NoCall EXCEPT !.tool = entry.name, !.args = entry.args]]
               /\ pc' = [pc EXCEPT ![p] = "dispatch"]
               /\ UNCHANGED <<cmds, loopvars>>

RunSingleTool(p) ==
    /\ pc[p] = "loop"
    /\ LET entry == tool_chain[p][idx[p]] IN
       /\ SHARE_ENVIRONMENTS' = [SHARE_ENVIRONMENTS EXCEPT ![p] = share_environments[p]]
       /\ ran' = [ran EXCEPT ![p] = Append(@, entry)]
       /\ UNCHANGED <<shared, requirements_cache, environment_packages, argv, config>>
       /\ IF entry.name \notin TOOLS_DIR
          THEN \* tool script not found
               Return(p, 1)
          ELSE /\ call' = [call EXCEPT ![p] =
                              [NoCall EXCEPT !.tool = entry.name, !.args = entry.args,
                                             !.route = IF Exists(fs, entry.name)
                                                       THEN "exists" ELSE "none"]]
               /\ Goto(p, IF Exists(fs, entry.name) THEN "dispatch" ELSE "share")
               /\ UNCHANGED <<cmds, loopvars>>

(***************************************************************************)
(* setup_environment step 2: look for a compatible environment and link    *)
(***************************************************************************)
\* _link_to_compatible_environment: the link cannot be made over an
\* existing entry; io_ok is whether the symlink/junction call itself works
LinkSucceeds(f, tool, io_ok) == f[tool].kind = "none" /\ io_ok

\* variant: a linked environment goes on to installation
AfterShare_install(found, linked) == IF found /\ linked THEN "install" ELSE "create"

\* variant: a failed link is fatal
AfterShare_strict(found, linked) ==
    IF found /\ linked THEN "dispatch" ELSE IF found THEN "failed" ELSE "create"

\* variant: after a failed link the lookup is tried again
AfterShare_retry(found, linked) ==
    IF found /\ linked THEN "dispatch" ELSE IF found THEN "share" ELSE "create"

\* lines 381-390: where setup_environment goes after step 2
AfterShare(found, linked) == IF found /\ linked THEN "dispatch" ELSE "create"

\* variant: the link is made at the path of the compatible environment
symlink_to_reversed(f, env_path, compatible_env) ==
    [f EXCEPT ![compatible_env] = LinkEnv(env_path)]

\* env_path.symlink_to(compatible_env), or the junction made by mklink /J
symlink_to(f, env_path, compatible_env) == [f EXCEPT ![env_path] = LinkEnv(compatible_env)]

Shareable(p) ==
    /\ pc[p] = "share"
    /\ UNCHANGED <<manifest, SHARE_ENVIRONMENTS, argv, mainvars>>
    /\ \E order \in Orders(Entries(fs)), io_ok \in BOOLEAN,
          outs \in [Unlisted(fs, environment_packages[p], call[p].tool) -> ListOutcomes] :
         LET tool == call[p].tool
             found == find_compatible_environment(SHARE_ENVIRONMENTS[p], requirements_cache[p],
                          environment_packages[p], manifest, fs, tool, order, outs)
             linked == found.ret # None /\ LinkSucceeds(fs, tool, io_ok)
         IN /\ requirements_cache' = [requirements_cache EXCEPT ![p] = found.rcache]
            /\ reads' = [reads EXCEPT ![p] = @ \o found.reads]
            /\ environment_packages' = [environment_packages EXCEPT ![p] = found.pcache]
            /\ Log(p, found.log \o IF found.ret # None
                                    THEN <<Op("link", tool, IF linked THEN "ok" ELSE "fail")>>
                                    ELSE <<>>)
            /\ fs' = IF linked THEN symlink_to(fs, tool, found.ret) ELSE fs
            /\ call' = [call EXCEPT ![p].compatible_env = found.ret,
                                     ![p].route = IF linked THEN "linked" ELSE "none"]
            /\ Goto(p, AfterShare(found.ret # None, linked))

(***************************************************************************)
(* setup_environment steps 3-5: create, install, verify                    *)
(***************************************************************************)
\* what the outside world does when the environment is created:
\*   "nouv"         shutil.which finds no uv
\*   "fail_clean"   uv venv exits non-zero and leaves nothing
\*   "fail_partial" uv venv exits non-zero and leaves a directory
\*   "ok"           uv venv exits 0 with an interpreter
\*   "ok_nointerp"  uv venv exits 0 but leaves no interpreter
CreateOutcomes == {"nouv", "fail_clean", "fail_partial", "ok", "ok_nointerp"}

\* variant: only a missing executable is fatal
CreateFails_uvonly(out) == out = "nouv"

\* _create_new_environment raises typer.Exit
CreateFails(out) == out \in {"nouv", "fail_clean", "fail_partial"}

\* uv venv at the tool's path; over a link that leads to an environment it
\* removes the link itself and makes a directory in its place
CreateEffect(entry, out) ==
    IF out = "ok" THEN DirEnv(TRUE, {})
    ELSE IF out \in {"ok_nointerp", "fail_partial"} THEN DirEnv(FALSE, {})
    ELSE entry

\* variant: creation waits while another process builds the same environment
Create_locked(p) ==
    /\ pc[p] = "create"
    /\ \A q \in Procs \ {p} : ~(pc[q] \in {"create", "install", "verify"}
                                 /\ call[q].tool = call[p].tool)
    /\ UNCHANGED <<manifest, reads, globals, mainvars>>
    /\ \E out \in CreateOutcomes :
         LET tool == call[p].tool IN
         /\ fs' = [fs EXCEPT ![tool] = CreateEffect(@, out)]
         /\ cmds' = [cmds EXCEPT ![p] = @ \o <<Op("venv", tool, out)>>]
         /\ call' = [call EXCEPT ![p].route = IF CreateFails(out) THEN "none" ELSE "created"]
         /\ pc' = [pc EXCEPT ![p] = IF CreateFails(out) THEN "failed" ELSE "install"]

Create(p) ==
    /\ pc[p] = "create"
    /\ UNCHANGED <<manifest, reads, globals, mainvars>>
    /\ \E out \in CreateOutcomes :
         LET tool == call[p].tool IN
         /\ fs' = [fs EXCEPT ![tool] = CreateEffect(@, out)]
         /\ Log(p, <<Op("venv", tool, out)>>)
         /\ call' = [call EXCEPT ![p].route = IF CreateFails(out) THEN "none" ELSE "created"]
         /\ Goto(p, IF CreateFails(out) THEN "failed" ELSE "install")

\* what the outside world does when the manifest is installed:
\*   "nouv"       shutil.which finds no uv
\*   "ok"         uv pip install exits 0
\*   "fail"       uv pip install exits non-zero
\*   "unexpected" subprocess.run raises something that is neither
\*                FileNotFoundError nor CalledProcessError
InstallOutcomes == {"nouv", "ok", "fail", "unexpected"}

\* lines 403-410: only an error that is not typer.Exit removes the directory
RemovesEnv(out) == out = "unexpected"

\* shutil.rmtree(env_path, ignore_errors=True) refuses a symlink
rmtree(entry) == IF entry.kind = "dir" THEN NoEnv ELSE entry

\* the packages that installing from the manifest puts into the environment
Named(mf) == ReadRequirements(mf.lines, 0, NoFault, {})

InstallEffect(entry, mf, out) ==
    IF out = "ok" /\ entry.kind = "dir" /\ entry.interp THEN [entry EXCEPT !.pkgs = Named(mf)]
    ELSE IF RemovesEnv(out) THEN rmtree(entry)
    ELSE entry

\* variant: the install step does not look for the manifest
HasManifest_always(mf, tool) == TRUE

\* line 301: requirements_path.exists()
HasManifest(mf, tool) == mf[tool].exists

Install(p) ==
    /\ pc[p] = "install"
    /\ UNCHANGED <<manifest, reads, SHARE_ENVIRONMENTS, requirements_cache, argv, call, mainvars>>
    /\ LET tool == call[p].tool IN
       IF ~HasManifest(manifest, tool)
       THEN \* no requirements file: nothing to install
            /\ Goto(p, "verify")
            /\ UNCHANGED <<fs, environment_packages, cmds>>
       ELSE \E out \in InstallOutcomes :
              /\ fs' = [fs EXCEPT ![tool] = InstallEffect(@, manifest[tool], out)]
              /\ Log(p, <<Op("install", tool, out)>>)
              /\ environment_packages' =
                    [environment_packages EXCEPT ![p] = IF out = "ok" THEN DictPop(@, tool) ELSE @]
              /\ Goto(p, IF out = "ok" THEN "verify" ELSE "failed")

\* variant: the final check of the interpreter is left out
Verify_trusting(p) ==
    /\ pc[p] = "verify"
    /\ UNCHANGED <<shared, globals, call, cmds, mainvars>>
    /\ pc' = [pc EXCEPT ![p] = "dispatch"]

Verify(p) ==
    /\ pc[p] = "verify"
    /\ UNCHANGED <<shared, globals, call, cmds, mainvars>>
    /\ Goto(p, IF IsFile(fs, call[p].tool) THEN "dispatch" ELSE "failed")

\* lines 580-586: setup_environment raised; run_single_tool returns 1
ProvisionFailed(p) ==
    /\ pc[p] = "failed"
    /\ UNCHANGED <<shared, globals, config, ran>>
    /\ Return(p, 1)

(***************************************************************************)
(* run_single_tool: dispatch                                               *)
(***************************************************************************)
\* what the tool script is when it is loaded:
\*   "missing_dependency" loading raises ModuleNotFoundError
\*   "load_error"         loading raises something else
\*   "marked"             a callable marked _is_jackknife_tool
\*   "marked_and_main"    a marked callable and a callable named main
\*   "main_only"          an unmarked callable named main
\*   "main_not_callable"  a module attribute main that is not callable
\*   "no_entry"           neither
Shapes == {"missing_dependency", "load_error", "marked", "marked_and_main", "main_only",
           "main_not_callable", "no_entry"}

\* import_tool_module returns a module
Loads(shape) == shape \notin {"missing_dependency", "load_error"}

\* one attribute of a module
Attr(name, callable, marked) == [name |-> name, callable |-> callable, marked |-> marked]

\* dir(module) of a loaded script, in the sorted order dir() gives; the marked
\* callable is named run, so main comes before it
Dir(shape) ==
    IF shape = "marked" THEN << Attr("helper", TRUE, FALSE), Attr("run", TRUE, TRUE) >>
    ELSE IF shape = "marked_and_main"
    THEN << Attr("helper", TRUE, FALSE), Attr("main", TRUE, FALSE), Attr("run", TRUE, TRUE) >>
    ELSE IF shape = "main_only" THEN << Attr("helper", TRUE, FALSE), Attr("main", TRUE, FALSE) >>
    ELSE IF shape = "main_not_callable"
    THEN << Attr("helper", TRUE, FALSE), Attr("main", FALSE, FALSE) >>
    ELSE << Attr("helper", TRUE, FALSE) >>

\* lines 466-469: the first callable of dir(module) that has the marker
RECURSIVE FirstMarked(_)
FirstMarked(attrs) ==
    IF attrs = <<>> THEN "None"
    ELSE IF Head(attrs).callable /\ Head(attrs).marked THEN "marked"
    ELSE FirstMarked(Tail(attrs))

\* variant: a callable named main is preferred to a marked one
find_tool_function_main_first(shape) ==
    IF \E i \in 1..Len(Dir(shape)) : Dir(shape)[i].name = "main" /\ Dir(shape)[i].callable
    THEN "main"
    ELSE FirstMarked(Dir(shape))

\* which callable find_tool_function returns: the marked one, main, or None
find_tool_function(shape) ==
    IF FirstMarked(Dir(shape)) # "None" THEN FirstMarked(Dir(shape))
    ELSE IF \E i \in 1..Len(Dir(shape)) : Dir(shape)[i].name = "main" /\ Dir(shape)[i].callable
    THEN "main"
    ELSE "None"

\* tool_func after lines 603-606: nothing is searched when the load failed
ToolFunc(shape) == IF Loads(shape) THEN find_tool_function(shape) ELSE "None"

\* variant: any entry point found is called in-process
InProcess_anyfunc(shape) == Loads(shape) /\ find_tool_function(shape) # "None"

\* lines 605-608
InProcess(shape) == Loads(shape) /\ find_tool_function(shape) = "marked"

Dispatch(p) ==
    /\ pc[p] = "dispatch"
    /\ UNCHANGED <<shared, SHARE_ENVIRONMENTS, requirements_cache, environment_packages,
                   cmds, mainvars>>
    /\ \E shape \in Shapes :
         LET tool == call[p].tool
             script == ScriptPath(tool)
         IN IF InProcess(shape)
            THEN /\ argv' = [argv EXCEPT ![p] = <<script>> \o call[p].args]
                 /\ call' = [call EXCEPT ![p].original_argv = argv[p], ![p].module = Loads(shape),
                                 ![p].tool_func = ToolFunc(shape), ![p].script = shape]
                 /\ Goto(p, "call")
            ELSE /\ argv' = argv
                 /\ call' = [call EXCEPT ![p].original_argv = argv[p], ![p].module = Loads(shape),
                                 ![p].tool_func = ToolFunc(shape), ![p].script = shape,
                                 ![p].command = <<get_python_executable(tool), script>> \o call[p].args]
                 /\ Goto(p, "spawn")

\* how an in-process entry point ends: it returns a value or raises
\* SystemExit with a code (isint: an integer val; text: another object, such
\* as an error message; neither: None), or raises something else
InProcOutcomes ==
    { [kind |-> k, isint |-> TRUE, text |-> FALSE, val |-> v] : k \in {"return", "sysexit"}, v \in ToolCodes }
    \cup { [kind |-> k, isint |-> FALSE, text |-> FALSE, val |-> 0] :
             k \in {"return", "sysexit", "exception", "interrupt"} }
    \cup { [kind |-> k, isint |-> FALSE, text |-> TRUE, val |-> 0] :
             k \in {"return", "sysexit"} }

\* variant: a stop signal is handled like any other exception
InProcCode_noexit(out) ==
    IF out.kind = "return" THEN (IF out.isint THEN out.val ELSE 0)
    ELSE IF out.kind = "interrupt" THEN 130
    ELSE 1

\* lines 613-618 and 654-663
InProcCode(out) ==
    IF out.kind \in {"return", "sysexit"} THEN (IF out.isint THEN out.val ELSE 0)
    ELSE IF out.kind = "interrupt" THEN 130
    ELSE 1

\* line 614: tool_func() returns or raises
ToolReturns(p) ==
    /\ pc[p] = "call"
    /\ UNCHANGED <<shared, globals, cmds, mainvars>>
    /\ \E out \in InProcOutcomes :
         /\ call' = [call EXCEPT ![p].outcome = out]
         /\ Goto(p, "ended")

\* how the subprocess ends: it exits, the wait is interrupted, or it cannot be started
SubOutcomes ==
    { [kind |-> "exit", isint |-> TRUE, text |-> FALSE, val |-> v] : v \in ToolCodes }
    \cup { [kind |-> k, isint |-> FALSE, text |-> FALSE, val |-> 0] : k \in {"interrupt", "oserror"} }

\* variant: an interrupted wait is a generic failure
SubCode_generic(out) == IF out.kind = "exit" THEN out.val ELSE 1

\* variant: only success or failure of the subprocess is kept
SubCode_flag(out) == IF out.kind = "exit" /\ out.val = 0 THEN 0 ELSE IF out.kind = "interrupt" THEN 130 ELSE 1

\* lines 641-668
SubCode(out) ==
    IF out.kind = "exit" THEN out.val
    ELSE IF out.kind = "interrupt" THEN 130
    ELSE 1

\* line 641: subprocess.run(command) returns or raises
SubprocessExits(p) ==
    /\ pc[p] = "spawn"
    /\ UNCHANGED <<shared, globals, cmds, mainvars>>
    /\ \E out \in SubOutcomes :
         /\ call' = [call EXCEPT ![p].outcome = out]
         /\ Goto(p, "ended")

\* lines 605-608 as the rest of run_single_tool sees them: the in-process
\* branch was taken
WentInProcess(c) == c.module /\ c.tool_func = "marked"

\* the value run_single_tool returns for the way the tool ended
ExitCode(c) == IF WentInProcess(c) THEN InProcCode(c.outcome) ELSE SubCode(c.outcome)

\* variant: no finally clause, sys.argv is left as the tool had it
ToolFinished_keeps_argv(p) ==
    /\ pc[p] = "ended"
    /\ UNCHANGED <<shared, globals, config, ran>>
    /\ Return(p, ExitCode(call[p]))

\* lines 615-668: the exit code is worked out, the finally clause restores
\* sys.argv, and run_single_tool returns to main
ToolFinished(p) ==
    /\ pc[p] = "ended"
    /\ UNCHANGED <<shared, SHARE_ENVIRONMENTS, requirements_cache, environment_packages,
                   config, ran>>
    /\ argv' = [argv EXCEPT ![p] = call[p].original_argv]
    /\ Return(p, ExitCode(call[p]))

(***************************************************************************)
(* Specification                                                           *)
(***************************************************************************)
Next ==
    \E p \in Procs :
        \/ Main(p)
        \/ RunSingleTool(p)
        \/ Shareable(p)
        \/ Create(p)
        \/ Install(p)
        \/ Verify(p)
        \/ ProvisionFailed(p)
        \/ Dispatch(p)
        \/ ToolReturns(p)
        \/ SubprocessExits(p)
        \/ ToolFinished(p)

Spec == Init /\ [][Next]_vars

\* the chains b,a[x y] and a[x y],n with sharing left on
LiveLines ==
    { c \in CmdLines :
        /\ c.wanted \in { << Entry(<<"b">>, <<>>), Entry(<<"a">>, << <<"x">>, <<"y">> >>) >>,
                          << Entry(<<"a">>, << <<"x">>, <<"y">> >>), Entry(<<"n">>, <<>>) >> }
        /\ ~c.no_share }

InitLive == InitWith({"main"}, LiveLines)

\* every external command and every tool returns: a step that can be taken
\* is taken
SpecLive == InitLive /\ [][Next]_vars /\ WF_vars(Next)

\* _install_dependencies on its own: the process is at step 4 of
\* setup_environment for the first entry of a two-entry chain, the create
\* command has just exited 0, and the installed-package cache holds whatever
\* earlier listings may have left, an entry for the tool's own interpreter
\* included (its environment was listed and then removed from outside the
\* process).
Caches == UNION { [S -> {{}, {<<"p">>}}] : S \in SUBSET TOOLS_DIR }

AtInstall(p, c, t, interp) ==
    /\ fs = [InitialEnvs EXCEPT ![t] = DirEnv(interp, {})]
    /\ cmdline = [q \in {p} |-> c]
    /\ pc = [q \in {p} |-> "install"]
    /\ SHARE_ENVIRONMENTS = [q \in {p} |-> ShareSetting(TRUE, c)]
    /\ share_environments = [q \in {p} |-> ShareSetting(TRUE, c)]
    /\ requirements_cache =
          [q \in {p} |-> IF ShareSetting(TRUE, c)
                         THEN parse_requirements(EmptyDict, manifest, t, NoFault).cache
                         ELSE EmptyDict]
    /\ reads =
          [q \in {p} |-> IF ShareSetting(TRUE, c)
                         THEN <<Request(manifest, t, NoFault,
                                        parse_requirements(EmptyDict, manifest, t, NoFault))>>
                         ELSE <<>>]
    /\ argv = [q \in {p} |-> << <<"jackknife">>, c.tool_arg >> \o c.tool_args]
    /\ tool_chain = [q \in {p} |-> ChainOf(c)]
    /\ chain_mode = [q \in {p} |-> TRUE]
    /\ idx = [q \in {p} |-> 1]
    /\ final_exit_code = [q \in {p} |-> 0]
    /\ exited = [q \in {p} |-> <<>>]
    /\ call = [q \in {p} |-> [NoCall EXCEPT !.tool = t, !.args = c.wanted[1].args,
                                              !.route = "created"]]
    /\ cmds = [q \in {p} |-> <<Op("venv", t, IF interp THEN "ok" ELSE "ok_nointerp")>>]
    /\ ran = [q \in {p} |-> <<c.wanted[1]>>]
    /\ seen = [q \in {p} |-> NoneSeen]

InitInstall ==
    /\ manifest \in ManifestChoices
    /\ environment_packages \in [{"main"} -> Caches]
    /\ \E c \in {d \in CmdLines : Len(d.wanted) = 2 /\ d.wanted[1].name \in {<<"a">>, <<"b">>}},
          interp \in BOOLEAN :
         AtInstall("main", c, c.wanted[1].name, interp)

NextInstall == \E p \in Procs : Install(p)

SpecInstall == InitInstall /\ [][NextInstall]_vars

(***************************************************************************)
(* parse_tool_chain on its own: main parses a chain argument made of any   *)
(* characters of ChainAlphabet, up to MaxInput of them, or the chain of    *)
(* the quoting example                                                     *)
(***************************************************************************)
MaxInput == 5

ChainAlphabet == {"a", ",", "[", "]", " ", "\""}

\* tool1[--name "John Doe"],tool2
QuotedChain ==
    <<"t", "o", "o", "l", "1", "[", "-", "-", "n", "a">>
    \o <<"m", "e", " ", "\"", "J", "o", "h", "n", " ", "D">>
    \o <<"o", "e", "\"", "]", ",", "t", "o", "o", "l", "2">>

\* main takes the argument for a chain when it holds a comma (line 722)
ChainArgs ==
    { s \in UNION { [1..k -> ChainAlphabet] : k \in 1..MaxInput } : Contains(s, ",") }
        \cup {QuotedChain}

ParseLines ==
    { [wanted |-> <<>>, tool_arg |-> s, tool_args |-> <<>>,
       continue_on_error |-> FALSE, no_share |-> FALSE] : s \in ChainArgs }

InitParse == InitWith({"main"}, ParseLines)

NextParse == \E p \in Procs : Main(p)

SpecParse == InitParse /\ [][NextParse]_vars

(***************************************************************************)
(* parse_requirements on its own: a caller asks for the requirements of    *)
(* the manifests, up to MaxRequests times in one process, while the files  *)
(* are rewritten, created and deleted between the calls and a read may hit *)
(* an I/O failure                                                          *)
(***************************************************************************)
MaxRequests == 2

\* no file; comment and blank lines only; one name; a version specifier,
\* upper case and a second name; a continued line
ManifestFiles ==
    { NoFile,
      Req(<< <<"#", "p">>, <<" ">> >>),
      Req(<< <<"p">> >>),
      Req(<< <<" ", "P", "=", "=", "1">>, <<"q">> >>),
      Req(<< <<"p", "\\">>, <<"q">> >>) }

\* the paths asked for
Asked == {<<"a">>, <<"b">>}

\* what a read of the file can hit
Faults(file) == {NoFault} \cup { FaultAfter(k) : k \in 0..Len(file.lines) }

InitManifest ==
    /\ fs = InitialEnvs
    /\ manifest \in { Manifests(ma, mb) : ma \in ManifestFiles, mb \in ManifestFiles }
    /\ reads = [p \in {"main"} |-> <<>>]
    /\ pc = [p \in {"main"} |-> "parse"]
    /\ cmdline \in [{"main"} -> {c \in CmdLines : c.wanted = <<Entry(<<"b">>, <<>>)>>
                                                   /\ c.tool_args = <<>> /\ ~c.continue_on_error
                                                   /\ ~c.no_share}]
    /\ SHARE_ENVIRONMENTS = [p \in {"main"} |-> TRUE]
    /\ requirements_cache = [p \in {"main"} |-> EmptyDict]
    /\ environment_packages = [p \in {"main"} |-> EmptyDict]
    /\ argv = [p \in {"main"} |-> << <<"jackknife">>, cmdline[p].tool_arg >>]
    /\ share_environments = [p \in {"main"} |-> TRUE]
    /\ tool_chain = [p \in {"main"} |-> <<>>]
    /\ chain_mode = [p \in {"main"} |-> FALSE]
    /\ idx = [p \in {"main"} |-> 1]
    /\ final_exit_code = [p \in {"main"} |-> 0]
    /\ exited = [p \in {"main"} |-> <<>>]
    /\ call = [p \in {"main"} |-> NoCall]
    /\ cmds = [p \in {"main"} |-> <<>>]
    /\ ran = [p \in {"main"} |-> <<>>]
    /\ seen = [p \in {"main"} |-> NoneSeen]

\* parse_requirements(TOOLS_DIR/<name>.requirements.txt)
ParseRequirements(p) ==
    /\ pc[p] = "parse"
    /\ Len(reads[p]) < MaxRequests
    /\ \E name \in Asked : \E fault \in Faults(manifest[name]) :
         LET parsed == parse_requirements(requirements_cache[p], manifest, name, fault) IN
         /\ requirements_cache' = [requirements_cache EXCEPT ![p] = parsed.cache]
         /\ reads' = [reads EXCEPT ![p] = Append(@, Request(manifest, name, fault, parsed))]
    /\ UNCHANGED <<fs, manifest, pc, SHARE_ENVIRONMENTS, environment_packages, argv,
                   mainvars, call, cmds>>

\* the manifests that change during the run
Edited == {<<"a">>}

\* somebody edits, creates or deletes a manifest
ManifestChanges ==
    /\ \E name \in Edited, file \in ManifestFiles :
         /\ file # manifest[name]
         /\ manifest' = [manifest EXCEPT ![name] = file]
    /\ UNCHANGED <<fs, reads, pc, globals, mainvars, call, cmds>>

NextManifest == (\E p \in Procs : ParseRequirements(p)) \/ ManifestChanges

SpecManifest == InitManifest /\ [][NextManifest]_vars

(***************************************************************************)
(* Two processes started for the same tool share ENVS_DIR; each has its    *)
(* own globals and caches. The runs are followed until provisioning ends.  *)
(***************************************************************************)
\* jackknife <tool>, with and without --no-share-environments
RaceLines ==
    { c \in CmdLines : Len(c.wanted) = 1 /\ c.wanted[1].name \in {<<"a">>, <<"b">>}
                         /\ c.tool_args = <<>> /\ ~c.continue_on_error }

InitRace ==
    /\ InitWith({"main", "other"}, RaceLines)
    /\ cmdline["main"].wanted = cmdline["other"].wanted

NextRace ==
    \E p \in Procs :
        \/ Main(p)
        \/ RunSingleTool(p)
        \/ Shareable(p)
        \/ Create(p)
        \/ Install(p)
        \/ Verify(p)
        \/ ProvisionFailed(p)

SpecRace == InitRace /\ [][NextRace]_vars

(***************************************************************************)
(* Vocabulary of the properties                                            *)
(***************************************************************************)
\* a run_single_tool call of p is under way
InCall(p) == pc[p] \notin {"start", "loop", "done"}

\* p runs a chain and has parsed it
InChain(p) == chain_mode[p] /\ pc[p] # "start"

ContinueOnError(p) == cmdline[p].continue_on_error

\* the entries of log with operation op whose command was actually run
Issued(log, op) == {i \in 1..Len(log) : log[i].op = op /\ log[i].result # "nouv"}

\* the entries of log with operation op, run or not
Tried(log, op) == {i \in 1..Len(log) : log[i].op = op}

(***************************************************************************)
(* Chain executor                                                          *)
(***************************************************************************)
\* C1: without continue-on-error a chain stops at the first entry that returns
\* non-zero: as soon as some call has returned non-zero the process has
\* exited with that code, the entries run are exactly those up to and
\* including that one, in chain order, and every one before it returned zero
\* (while the chain is still running, no non-zero code has been returned).
C1_StopsAtFirstFailure ==
    \A p \in Procs :
        (InChain(p) /\ ~ContinueOnError(p) /\ seen[p].last_nonzero # 0) =>
            /\ pc[p] = "done"
            /\ exited[p] = <<seen[p].last_nonzero>>
            /\ idx[p] = seen[p].returned
            /\ Len(ran[p]) = idx[p]
            /\ ran[p] = SubSeq(cmdline[p].wanted, 1, idx[p])

\* C1 witness: a chain stopped by a tool's own exit code 2 with an entry left unrun
C1_Witness ==
    \E p \in Procs :
        /\ InChain(p) /\ ~ContinueOnError(p) /\ pc[p] = "done"
        /\ exited[p] = <<2>>
        /\ Len(ran[p]) < Len(tool_chain[p])

\* C2: with continue-on-error the entries are run one at a time in chain
\* order (a call starts only when all calls before it have returned), the
\* process exits only after every entry has run once, and it exits with the
\* last non-zero code returned (0 when there is none).
C2_ContinuesToTheEnd ==
    \A p \in Procs :
        (InChain(p) /\ ContinueOnError(p)) =>
            /\ ran[p] = SubSeq(cmdline[p].wanted, 1, Len(ran[p]))
            /\ Len(ran[p]) = seen[p].returned + (IF InCall(p) THEN 1 ELSE 0)
            /\ InCall(p) => idx[p] = Len(ran[p])
            /\ pc[p] = "done" =>
                  /\ Len(ran[p]) = Len(cmdline[p].wanted)
                  /\ exited[p] = <<seen[p].last_nonzero>>

\* C2 witness: the first entry ("n", no such script) returned 1, the second
\* returned 2, and the process exited with 2
C2_Witness ==
    \E p \in Procs :
        /\ InChain(p) /\ ContinueOnError(p) /\ pc[p] = "done"
        /\ Len(ran[p]) = 2 /\ ran[p][1].name = <<"n">>
        /\ exited[p] = <<2>>

\* C3: under either policy a finished chain exits with 0 exactly when every
\* call returned 0, and then every entry was run with the name and the
\* arguments typed for it; a tool under way holds the arguments of its own
\* entry, in sys.argv (in-process) or in the command (subprocess).
C3_ZeroIffAllZero ==
    \A p \in Procs :
        InChain(p) =>
            /\ pc[p] = "done" =>
                  /\ exited[p] = <<0>> <=> seen[p].last_nonzero = 0
                  /\ exited[p] = <<0>> => ran[p] = cmdline[p].wanted
            /\ InCall(p) =>
                  /\ call[p].tool = cmdline[p].wanted[idx[p]].name
                  /\ call[p].args = cmdline[p].wanted[idx[p]].args
            /\ pc[p] = "call" => argv[p] = <<ScriptPath(call[p].tool)>> \o cmdline[p].wanted[idx[p]].args
            /\ pc[p] = "spawn" =>
                  call[p].command = <<get_python_executable(call[p].tool), ScriptPath(call[p].tool)>>
                                       \o cmdline[p].wanted[idx[p]].args

\* C3 witness: a two-entry chain, the first entry with arguments, exited with 0
C3_Witness ==
    \E p \in Procs :
        /\ InChain(p) /\ pc[p] = "done" /\ exited[p] = <<0>>
        /\ Len(ran[p]) = 2 /\ ran[p][1].args = << <<"x">>, <<"y">> >>

(***************************************************************************)
(* Provisioner                                                             *)
(***************************************************************************)
\* the tool of the chain entry p is at
Current(p) == tool_chain[p][idx[p]].name

Dispatched(p) == pc[p] \in {"dispatch", "call", "spawn", "ended"}

\* the step in which p enters run_single_tool for a tool whose script exists
Enters(p) == pc[p] = "loop" /\ pc'[p] # "loop" /\ Current(p) \in TOOLS_DIR

\* C4: when the interpreter of the tool is already there, through a primary
\* or a linked environment, setup_environment returns at once: the call goes
\* straight to dispatch and nothing is looked up, linked, created or
\* installed (file system, both caches and the command log are untouched).
\* An interpreter that is there stays there (only the failing install step
\* of the call that is building the environment takes it away), and the
\* lookup and create steps are only ever reached without one, so a second
\* call of the same tool in one run is not provisioned again.
C4_ExistingEnvironmentIsReused ==
    /\ [][\A p \in Procs :
            (Enters(p) /\ IsFile(fs, Current(p))) =>
                /\ pc'[p] = "dispatch"
                /\ call'[p].route = "exists"
                /\ UNCHANGED <<fs, requirements_cache, environment_packages, cmds>>]_vars
    /\ [][\A t \in DOMAIN fs :
            IsFile(fs, t) =>
                \/ IsFile(fs', t)
                \/ \E p \in Procs : pc[p] = "install" /\ call[p].tool = t /\ pc'[p] = "failed"]_vars
    /\ [](\A p \in Procs :
            /\ pc[p] \in {"share", "create"} => ~IsFile(fs, call[p].tool)
            /\ (InCall(p) /\ call[p].route = "exists") =>
                  Dispatched(p) /\ cmds[p] = <<>> /\ call[p].compatible_env = None)

\* C4 witness: chain "t,t" whose first call linked t; the second call is at
\* dispatch through the Exists short-circuit
C4_Witness ==
    \E p \in Procs :
        /\ pc[p] = "dispatch" /\ call[p].route = "exists"
        /\ idx[p] = 2 /\ ran[p][1].name = ran[p][2].name
        /\ fs[call[p].tool].kind = "link"

\* C5: (the statement of the claim) when provisioning has failed and the
\* error is on its way to run_single_tool, the tool has no environment
\* directory.
C5_FailureRemovesEnvironment ==
    \A p \in Procs : pc[p] = "failed" => fs[call[p].tool].kind = "none"

\* the RequirementSet of the tool p is provisioning
Requirements(p) ==
    parse_requirements(requirements_cache[p], manifest, call[p].tool, NoFault).reqs

\* an environment other than the tool's that has everything the tool requires
Satisfying(p) ==
    {e \in Entries(fs) \ {call[p].tool} :
        IsDir(fs, e) /\ IsFile(fs, e) /\ Requirements(p) \subseteq RealPkgs(fs, e)}

\* the case of C6, seen at the create step (the file system is as the lookup found it)
C6_Case(p) ==
    /\ SHARE_ENVIRONMENTS[p]
    /\ fs[call[p].tool].kind = "none"
    /\ Requirements(p) # {}
    /\ Satisfying(p) # {}

\* a package listing of this call failed, or the cache holds a listing that
\* is not what the environment has (left by a failed listing)
ListingFailed(p) ==
    \/ \E i \in Tried(cmds[p], "list") : cmds[p][i].result # "ok"
    \/ \E e \in DOMAIN environment_packages[p] : environment_packages[p][e] # RealPkgs(fs, e)

LinkFailed(p) == \E i \in Tried(cmds[p], "link") : cmds[p][i].result = "fail"

C7_NoLinkWhenSharingIsOff ==
    \A p \in Procs :
        (InCall(p) /\ ~SHARE_ENVIRONMENTS[p]) =>
            /\ Tried(cmds[p], "link") = {} /\ Tried(cmds[p], "list") = {}
            /\ call[p].compatible_env = None
            /\ call[p].route # "linked"
            /\ \A t \in DOMAIN fs : fs[t].kind # "link"
            /\ (Dispatched(p) /\ call[p].route # "exists") =>
                  /\ fs[call[p].tool].kind = "dir"
                  /\ \E i \in Tried(cmds[p], "venv") : cmds[p][i].result = "ok"

\* C7 witness: sharing off, a and b both require {p}; b is dispatched from
\* its own fresh primary environment while a has its own
C7_Witness ==
    \E p \in Procs :
        /\ ~SHARE_ENVIRONMENTS[p] /\ pc[p] = "dispatch" /\ call[p].tool = <<"b">>
        /\ call[p].route = "created"
        /\ manifest[<<"a">>] = manifest[<<"b">>]
        /\ fs[<<"a">>] = DirEnv(TRUE, {<<"p">>}) /\ fs[<<"b">>] = DirEnv(TRUE, {<<"p">>})

\* C8: within a call, every install command comes after a create command for
\* the same tool that exited 0, and a call that ended by linking has no
\* install command.
C8_InstallOnlyAfterCreate ==
    \A p \in Procs :
        /\ \A i \in Tried(cmds[p], "install") :
              \E j \in Tried(cmds[p], "venv") :
                  /\ j < i
                  /\ cmds[p][j].env = cmds[p][i].env
                  /\ cmds[p][j].env = call[p].tool
                  /\ cmds[p][j].result \in {"ok", "ok_nointerp"}
        /\ (InCall(p) /\ call[p].route = "linked") => Tried(cmds[p], "install") = {}

\* C8 witness: an install command was run after a successful create
C8_Witness ==
    \E p \in Procs :
        /\ pc[p] = "verify"
        /\ \E i \in Issued(cmds[p], "install") : cmds[p][i].result = "ok"

\* a create or install command of this call failed, or creation left no interpreter
BuildFailed(p) ==
    \/ \E i \in Tried(cmds[p], "venv") : cmds[p][i].result # "ok"
    \/ \E i \in Tried(cmds[p], "install") : cmds[p][i].result # "ok"

CreateFailed(p) ==
    \E i \in Tried(cmds[p], "venv") : cmds[p][i].result \in {"nouv", "fail_clean", "fail_partial"}

\* C10: when the create command fails (non-zero exit or no executable) the
\* call is failed: no install command follows, and its next step is the
\* return of run_single_tool with code 1, without import, call or spawn.
C10_CreateFailureIsFatal ==
    /\ [](\A p \in Procs :
            CreateFailed(p) => pc[p] = "failed" /\ Tried(cmds[p], "install") = {})
    /\ [][\A p \in Procs :
            (pc[p] = "failed" /\ pc'[p] # "failed") =>
                /\ pc'[p] \in {"loop", "done"}
                /\ seen'[p] = [returned |-> seen[p].returned + 1, last_nonzero |-> 1]
                /\ argv'[p] = argv[p]
                /\ ~chain_mode[p] => exited'[p] = <<1>>]_vars

\* C10 witness: the create command exited non-zero and the call is failed
C10_Witness ==
    \E p \in Procs :
        /\ pc[p] = "failed" /\ CreateFailed(p)
        /\ cmds[p][Len(cmds[p])] = Op("venv", call[p].tool, "fail_clean")

(***************************************************************************)
(* Environment registry and compatibility resolver                         *)
(***************************************************************************)
\* the step in which p leaves _install_dependencies
Installs(p) == pc[p] = "install" /\ pc'[p] # "install"

\* in that step the install command was run and exited 0
Installed(p) ==
    /\ Len(cmds'[p]) = Len(cmds[p]) + 1
    /\ cmds'[p][Len(cmds'[p])] = Op("install", call[p].tool, "ok")

\* C11: a successful install into the tool's interpreter leaves the
\* installed-package cache without an entry for that interpreter and with
\* every other entry as it was; leaving _install_dependencies in any other
\* way (no manifest, missing executable, non-zero exit, unexpected error)
\* leaves the cache as it was.  A lookup for an interpreter that has no entry
\* runs the listing command.
C11_InstallInvalidatesCache ==
    /\ [][\A p \in Procs :
            Installs(p) =>
                LET t == call[p].tool
                    before == environment_packages[p]
                    after == environment_packages'[p]
                IN IF Installed(p)
                   THEN /\ DOMAIN after = DOMAIN before \ {t}
                        /\ \A e \in DOMAIN after : after[e] = before[e]
                   ELSE after = before]_vars
    /\ [](\A p \in Procs : \A e \in Entries(fs) :
            (IsFile(fs, e) /\ e \notin DOMAIN environment_packages[p]) =>
                get_installed_packages(environment_packages[p], fs, e, "ok").log
                    = <<Op("list", e, "ok")>>)

\* C11 witness: the install succeeded, the tool's interpreter has no cache
\* entry and the entries of the two other interpreters are still there
C11_Witness ==
    \E p \in Procs :
        /\ pc[p] = "verify"
        /\ cmds[p][Len(cmds[p])] = Op("install", call[p].tool, "ok")
        /\ DOMAIN environment_packages[p] = TOOLS_DIR \ {call[p].tool}

\* the step in which p leaves step 2 of setup_environment
Looks(p) == pc[p] = "share" /\ pc'[p] # "share"

\* C12: when sharing is off or the tool's RequirementSet is empty (no
\* manifest, or a manifest without requirements), the lookup of step 2
\* returns None whatever environments exist: no package listing is run, no
\* link is made, the installed-package cache and the environments are as
\* they were, and setup_environment goes on to create.  With sharing off the
\* manifest is not even parsed.
C12_NoLookupWithoutSharingOrRequirements ==
    [][\A p \in Procs :
          (Looks(p) /\ (~SHARE_ENVIRONMENTS[p] \/ Requirements(p) = {})) =>
              /\ call'[p].compatible_env = None
              /\ pc'[p] = "create"
              /\ cmds'[p] = cmds[p]
              /\ environment_packages'[p] = environment_packages[p]
              /\ fs' = fs
              /\ ~SHARE_ENVIRONMENTS[p] => requirements_cache'[p] = requirements_cache[p]]_vars

\* C12 witness: sharing is on, the tool's manifest has no requirements, an
\* environment with an interpreter exists, and the call is at create with no
\* command run
C12_Witness ==
    \E p \in Procs :
        /\ pc[p] = "create" /\ SHARE_ENVIRONMENTS[p]
        /\ HasManifest(manifest, call[p].tool) /\ Requirements(p) = {}
        /\ IsFile(fs, <<"c">>)
        /\ cmds[p] = <<>> /\ call[p].compatible_env = None

\* the environments the scan for p's tool may look at: directories other
\* than the tool's own whose interpreter exists
Candidates(p) ==
    {e \in Entries(fs) \ {call[p].tool} : IsDir(fs, e) /\ IsFile(fs, e)}

\* the environment the lookup of this step returned
Returned(p) == call'[p].compatible_env

\* the candidates the registry holds, after this step, a sufficient
\* installed-package set for
Eligible(p) ==
    {e \in Candidates(p) :
        /\ e \in DOMAIN environment_packages'[p]
        /\ Requirements(p) \subseteq environment_packages'[p][e]}

\* C13: (the statement of the claim) with sharing on and a non-empty
\* RequirementSet the lookup returns an environment exactly when an eligible
\* one exists, and what it returns is eligible.
C13_ReturnsEligibleIffOneExists ==
    [][\A p \in Procs :
          (Looks(p) /\ SHARE_ENVIRONMENTS[p] /\ Requirements(p) # {}) =>
              /\ Returned(p) # None <=> Eligible(p) # {}
              /\ Returned(p) # None => Returned(p) \in Eligible(p)]_vars

\* the package listings of this step that failed for a missing executable or
\* a non-zero exit
FailedListings(p) ==
    {i \in Tried(cmds'[p], "list") : cmds'[p][i].result \in {"nouv", "fail"}}

\* the scan of this step has looked at e and found it incompatible
FoundIncompatible(p, e) ==
    \/ e \in DOMAIN environment_packages'[p]
         /\ ~(Requirements(p) \subseteq environment_packages'[p][e])
    \/ \E i \in Tried(cmds'[p], "list") : cmds'[p][i].env = e /\ cmds'[p][i].result # "ok"

\* C14: (the statement of the claim) a scan in which a package listing
\* failed does not return the environment whose listing failed and is not
\* cut short: when it returns None it has looked at every candidate.
C14_FailedListingDoesNotAbort ==
    [][\A p \in Procs :
          (Looks(p) /\ FailedListings(p) # {}) =>
              /\ \A i \in FailedListings(p) : Returned(p) # cmds'[p][i].env
              /\ Returned(p) = None => \A e \in Candidates(p) : FoundIncompatible(p, e)]_vars

SubprocessEnded(p) == pc[p] = "ended" /\ ~WentInProcess(call[p])

\* C16: the command spawned is the interpreter of the tool's environment,
\* the script path and the tool's arguments in the order given (in
\* single-tool mode the REMAINDER arguments of the command line), and the
\* interpreter is there; in single-tool mode, when the subprocess exits
\* with a code, zero or not, the process exits with that code.
C16_SubprocessCommandAndCode ==
    /\ [](\A p \in Procs :
            (pc[p] = "spawn" \/ SubprocessEnded(p)) =>
                /\ call[p].command
                     = <<get_python_executable(call[p].tool), ScriptPath(call[p].tool)>>
                          \o tool_chain[p][idx[p]].args
                /\ ~chain_mode[p] => tool_chain[p][idx[p]].args = cmdline[p].tool_args
                /\ IsFile(fs, call[p].tool))
    /\ [][\A p \in Procs :
            (SubprocessEnded(p) /\ pc'[p] # "ended" /\ ~chain_mode[p]
               /\ call[p].outcome.kind = "exit") =>
                pc'[p] = "done" /\ exited'[p] = <<call[p].outcome.val>>]_vars

\* C16 witness: a single tool run with one argument was spawned and its
\* subprocess exited with 2
C16_Witness ==
    \E p \in Procs :
        /\ ~chain_mode[p] /\ SubprocessEnded(p)
        /\ call[p].outcome = [kind |-> "exit", isint |-> TRUE, text |-> FALSE, val |-> 2]
        /\ Len(call[p].command) = 3 /\ call[p].command[3] = <<"x">>

\* sys.argv as the process was started
StartArgv(p) == << <<"jackknife">>, cmdline[p].tool_arg >> \o cmdline[p].tool_args

\* C17: outside run_single_tool, before the first call, between two chain
\* entries and after the last, whatever way each call ended, sys.argv is
\* what the process was started with; inside a call it is changed only for
\* the in-process call, where it is the script path followed by the
\* arguments of that entry.
C17_ArgvScopedToOneCall ==
    \A p \in Procs :
        /\ ~InCall(p) => argv[p] = StartArgv(p)
        /\ (InCall(p) /\ pc[p] \notin {"call", "ended"}) => argv[p] = StartArgv(p)
        /\ (pc[p] = "ended" /\ ~WentInProcess(call[p])) => argv[p] = StartArgv(p)
        /\ (pc[p] = "call" \/ (pc[p] = "ended" /\ WentInProcess(call[p]))) =>
              /\ argv[p] = <<ScriptPath(call[p].tool)>> \o tool_chain[p][idx[p]].args
              /\ call[p].original_argv = StartArgv(p)

\* C17 witness: the first entry of a chain, run with arguments x y, was
\* interrupted; the process is about to run the second entry with sys.argv
\* as it was started
C17_Witness ==
    \E p \in Procs :
        /\ pc[p] = "loop" /\ idx[p] = 2
        /\ ran[p][1].args = << <<"x">>, <<"y">> >>
        /\ seen[p] = [returned |-> 1, last_nonzero |-> 130]
        /\ argv[p] = StartArgv(p)

\* p's tool was called in-process and the call has ended
InProcessEnded(p) == pc[p] = "ended" /\ WentInProcess(call[p])

\* the step in which run_single_tool returns after the tool ended
Finishes(p) == pc[p] = "ended" /\ pc'[p] # "ended"

\* in this step run_single_tool returns code to main: one more call has
\* returned, with that code, and in single-tool mode the process exits with it
ResultIs(p, code) ==
    /\ seen'[p].returned = seen[p].returned + 1
    /\ seen'[p].last_nonzero = (IF code # 0 THEN code ELSE seen[p].last_nonzero)
    /\ ~chain_mode[p] => exited'[p] = <<code>>

\* C18: when the in-process entry point returns an integer the result of
\* the invocation is that integer; when it raises SystemExit with an integer
\* code the result is that code; when it raises another exception the
\* result is 1.
C18_InProcessExitCode ==
    [][\A p \in Procs :
          (InProcessEnded(p) /\ Finishes(p)) =>
              LET out == call[p].outcome IN
              /\ (out.kind \in {"return", "sysexit"} /\ out.isint) => ResultIs(p, out.val)
              /\ out.kind = "exception" => ResultIs(p, 1)]_vars

\* C18 witness: the entry point of a single tool raised SystemExit(2)
C18_Witness ==
    \E p \in Procs :
        /\ ~chain_mode[p] /\ InProcessEnded(p)
        /\ call[p].outcome = [kind |-> "sysexit", isint |-> TRUE, text |-> FALSE, val |-> 2]

\* C19: when the tool is interrupted by the user, in the in-process call
\* or while run_single_tool waits for the subprocess, the result of the
\* invocation is 130, and in single-tool mode the process exits with 130.
C19_InterruptGives130 ==
    [][\A p \in Procs :
          (Finishes(p) /\ call[p].outcome.kind = "interrupt") =>
              /\ ResultIs(p, 130)
              /\ seen'[p].last_nonzero # 1]_vars

\* C19 witness: a single tool was spawned and the wait for it was interrupted
C19_Witness ==
    \E p \in Procs :
        /\ ~chain_mode[p] /\ SubprocessEnded(p)
        /\ call[p].outcome.kind = "interrupt"

\* C20: (the statement of the claim) in chain mode, once a chain entry has
\* been interrupted the code the chain will exit with is 130 and stays 130
\* whatever the later entries return, and the process exits with it.  (130
\* is returned for an interrupt only: tools return codes of ToolCodes.)
C20_InterruptedChainExits130 ==
    /\ [][\A p \in Procs :
            /\ (chain_mode[p] /\ Finishes(p) /\ call[p].outcome.kind = "interrupt") =>
                  final_exit_code'[p] = 130
            /\ (chain_mode[p] /\ final_exit_code[p] = 130) => final_exit_code'[p] = 130]_vars
    /\ [](\A p \in Procs :
            (chain_mode[p] /\ pc[p] = "done") => exited[p] = <<final_exit_code[p]>>)

(***************************************************************************)
(* Startup and configuration                                               *)
(***************************************************************************)
\* p is done and run_single_tool was never called
ExitedAtStartup(p) == pc[p] = "done" /\ seen[p].returned = 0

\* C21: a process that ends without any call of run_single_tool has exited
\* with 1 from the startup check: no argument was parsed (no chain, no chain
\* mode), nothing was run and the environments are untouched.  When uv is
\* found the startup step changes nothing outside main: it only parses the
\* command line and goes on to the first entry.
C21_MissingUvExitsAtStartup ==
    /\ [](\A p \in Procs :
            ExitedAtStartup(p) =>
                /\ exited[p] = <<1>>
                /\ tool_chain[p] = <<>> /\ ~chain_mode[p]
                /\ ran[p] = <<>> /\ cmds[p] = <<>> /\ call[p] = NoCall
                /\ argv[p] = StartArgv(p)
                /\ fs = InitialEnvs)
    /\ [][\A p \in Procs :
            (pc[p] = "start" /\ pc'[p] = "loop") =>
                /\ exited'[p] = <<>>
                /\ UNCHANGED <<fs, globals, cmds, ran, seen, call>>]_vars

\* C21 witness: uv was not found; the process has exited with 1 and nothing was run
C21_Witness ==
    \E p \in Procs : ExitedAtStartup(p) /\ exited[p] = <<1>> /\ ran[p] = <<>>

\* C22: when the command line has --no-share-environments, the value main
\* passes on is false and the process-wide flag is false during every call
\* of run_single_tool, for a single tool and for every chain entry: no
\* lookup returns an environment, no listing is run and no link is made.
C22_NoShareFlagDisablesSharing ==
    \A p \in Procs :
        cmdline[p].no_share =>
            /\ pc[p] # "start" => (ExitedAtStartup(p) \/ ~share_environments[p])
            /\ InCall(p) =>
                  /\ ~SHARE_ENVIRONMENTS[p]
                  /\ call[p].compatible_env = None /\ call[p].route # "linked"
                  /\ Tried(cmds[p], "link") = {} /\ Tried(cmds[p], "list") = {}
                  /\ fs[call[p].tool].kind # "link"

\* C22 witness: with the flag, the second chain entry requires {p}, which
\* environment c has, and is at create with no command run
C22_Witness ==
    \E p \in Procs :
        /\ cmdline[p].no_share /\ idx[p] = 2 /\ pc[p] = "create"
        /\ Requirements(p) = {<<"p">>} /\ Candidates(p) # {}
        /\ cmds[p] = <<>>

\* C23: (the statement of the claim) without --no-share-environments the
\* sharing policy is the one the environment variable set when the module
\* was loaded: main passes that value on and no step changes the
\* process-wide flag.
C23_EnvironmentVariableIsTheDefault ==
    [][\A p \in Procs :
          ~cmdline[p].no_share =>
              /\ (pc[p] = "start" /\ pc'[p] = "loop") =>
                    share_environments'[p] = SHARE_ENVIRONMENTS[p]
              /\ SHARE_ENVIRONMENTS'[p] = SHARE_ENVIRONMENTS[p]]_vars

\* the step in which p calls run_single_tool for the entry it is at
Starts(p) == pc[p] = "loop" /\ Len(ran'[p]) = Len(ran[p]) + 1

\* C24: a call of run_single_tool for a name with no script in TOOLS_DIR
\* returns 1 in the same step: the environments, both caches and sys.argv
\* are as they were, no command is run and no tool is dispatched; a single
\* tool run exits with 1, and a chain treats the entry as failed (it stops
\* with 1 unless continue-on-error is set).
C24_MissingScriptGivesOne ==
    [][\A p \in Procs :
          (Starts(p) /\ Current(p) \notin TOOLS_DIR) =>
              /\ ResultIs(p, 1)
              /\ pc'[p] \in {"loop", "done"}
              /\ UNCHANGED <<fs, requirements_cache, environment_packages, argv>>
              /\ cmds'[p] = <<>> /\ call'[p] = NoCall
              /\ ~ContinueOnError(p) => pc'[p] = "done" /\ exited'[p] = <<1>>]_vars

\* C24 witness: a single tool with no script was asked for; the process
\* has exited with 1 and the environments are as at the start
C24_Witness ==
    \E p \in Procs :
        /\ ~chain_mode[p] /\ pc[p] = "done" /\ exited[p] = <<1>>
        /\ Len(ran[p]) = 1 /\ ran[p][1].name = <<"n">>
        /\ fs = InitialEnvs

\* main has parsed the chain argument of p and is about to run its entries
Parsed(p) == pc[p] = "loop" /\ chain_mode[p]

\* sub occurs in s as a run of consecutive characters
HasSub(s, sub) == \E i \in 1..(Len(s) - Len(sub) + 1) : SubSeq(s, i, i + Len(sub) - 1) = sub

\* C25: the chain tool1[--name "John Doe"],tool2 is parsed into tool1, whose
\* argument vector holds --name and a token that contains John Doe, and
\* tool2 with no arguments: the double-quoted phrase stays in one token.
C25_QuotedPhraseIsOneToken ==
    \A p \in Procs :
        (Parsed(p) /\ cmdline[p].tool_arg = QuotedChain) =>
            /\ Len(tool_chain[p]) = 2
            /\ tool_chain[p][1].name = <<"t", "o", "o", "l", "1">>
            /\ \E i \in 1..Len(tool_chain[p][1].args) :
                 tool_chain[p][1].args[i] = <<"-", "-", "n", "a", "m", "e">>
            /\ \E i \in 1..Len(tool_chain[p][1].args) :
                 HasSub(tool_chain[p][1].args[i], <<"J", "o", "h", "n", " ", "D", "o", "e">>)
            /\ tool_chain[p][2] = Entry(<<"t", "o", "o", "l", "2">>, <<>>)

\* how deep in brackets the end of s lies; -1 once a "]" had no "[" to close
RECURSIVE DepthAfter(_, _)
DepthAfter(s, depth) ==
    IF s = <<>> \/ depth < 0 THEN depth
    ELSE DepthAfter(Tail(s), IF Head(s) = "[" THEN depth + 1
                             ELSE IF Head(s) = "]" THEN depth - 1 ELSE depth)

\* every "[" of s has its matching "]"
Balanced(s) == DepthAfter(s, 0) = 0

\* the pieces of s between the commas that lie outside every bracket pair,
\* in order; like the parser, an empty piece is no entry
RECURSIVE Segments(_, _, _, _)
Segments(s, parts, current, depth) ==
    IF s = <<>> THEN (IF current # <<>> THEN Append(parts, current) ELSE parts)
    ELSE LET ch == Head(s) IN
         IF ch = "[" THEN Segments(Tail(s), parts, Append(current, ch), depth + 1)
         ELSE IF ch = "]" THEN Segments(Tail(s), parts, Append(current, ch), depth - 1)
         ELSE IF ch = "," /\ depth = 0
              THEN Segments(Tail(s), IF current # <<>> THEN Append(parts, current) ELSE parts,
                            <<>>, depth)
         ELSE Segments(Tail(s), parts, Append(current, ch), depth)

\* a piece without brackets, and a piece name[a b] without quotes
Bare(seg) == ~Contains(seg, "[") /\ ~Contains(seg, "]")
Bracketed(seg) == Contains(seg, "[") /\ seg[Len(seg)] = "]" /\ ~Contains(seg, "\"")

\* C26: the entries of a parsed chain are the pieces between the commas
\* outside brackets, in input order, nested bracket pairs included: a comma
\* between a "[" and its matching "]" never separates two entries; a piece
\* without brackets gives its name and no arguments, a piece name[a b]
\* without quotes gives the whitespace-separated tokens between the brackets.
C26_SplitsOnlyOutsideBrackets ==
    \A p \in Procs :
        (Parsed(p) /\ Balanced(cmdline[p].tool_arg)) =>
            LET segs == Segments(cmdline[p].tool_arg, <<>>, <<>>, 0) IN
            /\ Len(tool_chain[p]) = Len(segs)
            /\ \A i \in 1..Len(segs) :
                 /\ Bare(segs[i]) => tool_chain[p][i] = Entry(Strip(segs[i]), <<>>)
                 /\ Bracketed(segs[i]) =>
                      LET k == IndexOf(segs[i], "[") IN
                      tool_chain[p][i] =
                          Entry(Strip(SubSeq(segs[i], 1, k - 1)),
                                Split(SubSeq(segs[i], k + 1, Len(segs[i]) - 1)))

\* the calls of parse_requirements p made so far, by position
Calls(p) == 1..Len(reads[p])

\* the file was opened for the call and read to its end
ReadWhole(r) == ~r.hit /\ r.file.exists /\ ~r.fault.fails

\* C27: within one process run a manifest path is read and parsed at most
\* once: every later call for the same path is answered from the cache with
\* the RequirementSet of the first call, whatever the file is by then
\* (missing at the first call, created, rewritten or deleted since).
C27_ManifestReadAtMostOnce ==
    \A p \in Procs : \A i \in Calls(p), j \in Calls(p) :
        (i < j /\ reads[p][i].path = reads[p][j].path) =>
            /\ reads[p][j].hit
            /\ reads[p][j].reqs = reads[p][i].reqs
            /\ requirements_cache[p][reads[p][j].path] = reads[p][i].reqs

\* C27 witness: the manifest was missing at the first call and holds a
\* requirement at the second, which still returned the empty set
C27_Witness ==
    \E p \in Procs :
        /\ Len(reads[p]) = 2
        /\ reads[p][1].path = reads[p][2].path
        /\ reads[p][1].file = NoFile
        /\ reads[p][2].file = Req(<< <<"p">> >>)
        /\ reads[p][2].reqs = {}

\* the file exists and holds nothing but comment and blank lines
CommentsOnly(file) ==
    /\ file.exists
    /\ \A i \in 1..Len(file.lines) :
         Strip(file.lines[i]) = <<>> \/ Head(Strip(file.lines[i])) = "#"

\* C28: two parses of the same manifest give equal RequirementSets; a
\* missing manifest gives the empty set, and so does a manifest that holds
\* only comment and blank lines.
C28_ParsingIsIdempotent ==
    \A p \in Procs : \A i \in Calls(p), j \in Calls(p) :
        /\ (ReadWhole(reads[p][i]) /\ ReadWhole(reads[p][j])
              /\ reads[p][i].file = reads[p][j].file) =>
               reads[p][i].reqs = reads[p][j].reqs
        /\ (~reads[p][i].hit /\ ~reads[p][i].file.exists) => reads[p][i].reqs = {}
        /\ (~reads[p][i].hit /\ CommentsOnly(reads[p][i].file)) => reads[p][i].reqs = {}

\* C28 witness: two manifests with the same lines were parsed to their end
\* and gave the same two requirements
C28_Witness ==
    \E p \in Procs :
        /\ Len(reads[p]) = 2
        /\ ReadWhole(reads[p][1]) /\ ReadWhole(reads[p][2])
        /\ reads[p][1].file = reads[p][2].file
        /\ reads[p][1].reqs = {<<"p">>, <<"q">>}
        /\ reads[p][2].reqs = {<<"p">>, <<"q">>}

\* C29: an I/O failure while a manifest is read, at open or part-way through
\* the file, makes the parser return and cache the empty set, as for a
\* missing manifest: no identifier read before the failure is kept.
C29_ReadFailureGivesEmptySet ==
    \A p \in Procs : \A i \in Calls(p) :
        (~reads[p][i].hit /\ reads[p][i].file.exists /\ reads[p][i].fault.fails) =>
            /\ reads[p][i].reqs = {}
            /\ requirements_cache[p][reads[p][i].path] = {}

\* the call of p provisions afresh: the tool had no interpreter and the
\* lookup returned no compatible environment
Fresh(p) ==
    /\ pc[p] \in {"create", "install", "verify", "failed", "dispatch", "call", "spawn", "ended"}
    /\ call[p].route # "exists"
    /\ call[p].compatible_env = None

\* the provisioning of the call is over
Provisioned(p) == pc[p] = "failed" \/ Dispatched(p)

\* the external command of a log entry was run
WasRun(e) == e.result # "nouv"

\* the operations of the external commands the call has run, in order
Commands(p) ==
    LET run == SelectSeq(cmds[p], WasRun) IN [i \in 1..Len(run) |-> run[i].op]

\* C30 as stated: a fresh provisioning runs exactly one creation command
\* first, then exactly one install command if and only if the manifest
\* exists, and no other external command
C30_AsStated ==
    \A p \in Procs :
        (Fresh(p) /\ Provisioned(p)) =>
            Commands(p) = IF manifest[call[p].tool].exists
                          THEN <<"venv", "install">> ELSE <<"venv">>

\* Commands(p) without the package listings
RECURSIVE Building(_)
Building(ops) ==
    IF ops = <<>> THEN <<>>
    ELSE IF Head(ops) = "list" THEN Building(Tail(ops))
    ELSE <<Head(ops)>> \o Building(Tail(ops))

\* C30 (amended): in a fresh provisioning the only external commands before
\* the creation command are the package listings of the lookup; then come at
\* most one creation command and, only after a creation that exited 0, at
\* most one install command, and nothing else. A provisioning that was not
\* failed ran exactly one creation command and then exactly one install
\* command if and only if the manifest exists.
C30_ListingsThenCreateThenInstall ==
    \A p \in Procs :
        Fresh(p) =>
            LET ops == Commands(p)
                build == Building(ops)
            IN /\ \A i \in 1..Len(ops) : \A j \in 1..Len(ops) :
                     (ops[i] = "list" /\ ops[j] # "list") => i < j
               /\ build \in {<<>>, <<"venv">>, <<"venv", "install">>}
               /\ Tried(cmds[p], "install") # {} =>
                     /\ manifest[call[p].tool].exists
                     /\ \E i \in Tried(cmds[p], "venv") : cmds[p][i].result \in {"ok", "ok_nointerp"}
               /\ pc[p] # "create" => Tried(cmds[p], "venv") # {}
               /\ (pc[p] = "verify" \/ Dispatched(p)) =>
                     build = IF manifest[call[p].tool].exists
                             THEN <<"venv", "install">> ELSE <<"venv">>

\* C30 witness: the lookup listed an environment that lacks a requirement,
\* then the environment was created and the manifest installed
C30_Witness ==
    \E p \in Procs :
        /\ Fresh(p) /\ pc[p] = "dispatch"
        /\ Commands(p) = <<"list", "venv", "install">>
        /\ manifest[call[p].tool].exists

(***************************************************************************)
(* Provisioner and dispatcher: safety, frame and order                     *)
(***************************************************************************)
\* setup_environment of the call of p has returned an interpreter path
HasInterpreterPath(p) == Dispatched(p)

\* C31: whenever setup_environment has returned an interpreter path, by the
\* Exists, the link or the create route, the interpreter binary is there at
\* that path; on the create route a missing interpreter after create and
\* install fails the call and no path is returned.
C31_ReturnedInterpreterExists ==
    /\ [](\A p \in Procs :
            HasInterpreterPath(p) =>
                /\ IsFile(fs, call[p].tool)
                /\ call[p].route \in {"exists", "linked", "created"})
    /\ [][\A p \in Procs :
            (pc[p] = "verify" /\ pc'[p] # "verify" /\ ~IsFile(fs, call[p].tool)) =>
                pc'[p] = "failed" /\ fs' = fs]_vars
    /\ [][\A p \in Procs :
            (pc[p] = "failed" /\ pc'[p] # "failed") => ResultIs(p, 1)]_vars

\* C31 witness: creation exited 0 without leaving an interpreter, the
\* manifest was installed, and the call is failed
C31_Witness ==
    \E p \in Procs :
        /\ pc[p] = "failed" /\ call[p].route = "created"
        /\ ~IsFile(fs, call[p].tool)
        /\ Len(cmds[p]) > 0
        /\ cmds[p][Len(cmds[p])].op \in {"venv", "install"}
        /\ cmds[p][Len(cmds[p])].result \in {"ok", "ok_nointerp"}
        /\ \A i \in 1..Len(cmds[p]) : cmds[p][i].op \in {"venv", "install"} =>
                                         cmds[p][i].result \in {"ok", "ok_nointerp"}

\* C32: the target of every linked environment is a primary environment of
\* another tool, a directory that holds a real runtime: never another linked
\* environment and never the tool's own path.
C32_LinksPointAtPrimary ==
    \A n \in DOMAIN fs :
        fs[n].kind = "link" =>
            /\ fs[n].target # n
            /\ fs[fs[n].target].kind = "dir"
            /\ fs[fs[n].target].interp

\* the module the call of p loaded has a marked callable, a callable main
HasMarked(p) ==
    \E i \in 1..Len(Dir(call[p].script)) :
        Dir(call[p].script)[i].callable /\ Dir(call[p].script)[i].marked
HasMain(p) ==
    \E i \in 1..Len(Dir(call[p].script)) :
        Dir(call[p].script)[i].name = "main" /\ Dir(call[p].script)[i].callable

\* find_tool_function was applied in the call of p
Searched(p) == pc[p] \in {"call", "spawn", "ended"} /\ call[p].module

\* C33: find_tool_function returns a marked callable whenever the module
\* has one, also when the module has a callable named main; the callable
\* named main when there is no marked callable; None when there is neither.
C33_MarkedBeforeMain ==
    \A p \in Procs :
        Searched(p) =>
            /\ HasMarked(p) => call[p].tool_func = "marked"
            /\ (~HasMarked(p) /\ HasMain(p)) => call[p].tool_func = "main"
            /\ (~HasMarked(p) /\ ~HasMain(p)) => call[p].tool_func = "None"

\* C33 witness: the module has a callable main and, later in dir(), a marked
\* callable, which is the one returned
C33_Witness ==
    \E p \in Procs :
        /\ Searched(p) /\ call[p].script = "marked_and_main"
        /\ HasMarked(p) /\ HasMain(p)
        /\ call[p].tool_func = "marked"

\* p and q provision the same tool, and both found no interpreter
BothProvision(p, q) ==
    /\ p # q
    /\ call[p].tool # None /\ call[p].tool = call[q].tool
    /\ call[p].route # "exists" /\ call[q].route # "exists"
    /\ pc[p] \in {"share", "create", "install", "verify", "failed", "dispatch"}
    /\ pc[q] \in {"share", "create", "install", "verify", "failed", "dispatch"}

\* C34: the Exists check and the provisioning steps after it are not atomic
\* and nothing excludes another process: whatever the other processes are
\* doing, a process that is to make the Exists check, create, install or
\* verify can take that step; so two processes can both find the
\* interpreter absent and both run the creation command for the same path.
C34_ProvisioningIsUnguarded ==
    \A p \in Procs :
        /\ pc[p] = "loop" => ENABLED RunSingleTool(p)
        /\ pc[p] = "create" => ENABLED Create(p)
        /\ pc[p] = "install" => ENABLED Install(p)
        /\ pc[p] = "verify" => ENABLED Verify(p)

\* C34 witness: both processes found no interpreter for the same tool and
\* both ran the creation command for its path
C34_Witness ==
    \E p \in Procs, q \in Procs :
        /\ BothProvision(p, q)
        /\ \E i \in Issued(cmds[p], "venv") : cmds[p][i].env = call[p].tool
        /\ \E j \in Issued(cmds[q], "venv") : cmds[q][j].env = call[p].tool

\* the tool whose environment p is provisioning or is about to provision
Provisions(p) == IF pc[p] = "loop" THEN Current(p) ELSE call[p].tool

Loaded(p) == call[p].script # "none"

\* C36: within run_single_tool the script is neither loaded in-process nor
\* spawned unless setup_environment has returned an interpreter path earlier
\* in the same call (by the Exists, link or create route), also for a tool
\* that is then called in-process.
C36_ProvisioningPrecedesDispatch ==
    /\ [](\A p \in Procs :
            (Loaded(p) \/ pc[p] \in {"call", "spawn", "ended"}) =>
                /\ call[p].route \in {"exists", "linked", "created"}
                /\ call[p].tool = ran[p][Len(ran[p])].name
                /\ Len(ran[p]) = seen[p].returned + 1)
    /\ [][\A p \in Procs :
            (Loaded(p)' /\ ~Loaded(p)) => pc[p] = "dispatch"]_vars
    /\ [][\A p \in Procs :
            (pc'[p] = "dispatch" /\ pc[p] # "dispatch") =>
                /\ pc[p] \in {"loop", "share", "verify"}
                /\ call'[p].route \in {"exists", "linked", "created"}
                /\ ~Loaded(p)']_vars

\* C36 witness: a tool whose environment was created in this call is being
\* called in-process
C36_Witness ==
    \E p \in Procs :
        /\ pc[p] = "call" /\ WentInProcess(call[p])
        /\ call[p].route = "created"
        /\ \E i \in Issued(cmds[p], "venv") : cmds[p][i].result = "ok"

\* C37: the installed-package cache gets an entry for an interpreter only
\* from a listing command for that interpreter that exited 0; a listing
\* that fails leaves no entry, so a later lookup runs the command again.
C37_OnlySuccessfulListingsCached ==
    [][\A p \in Procs :
          \A e \in DOMAIN environment_packages'[p] \ DOMAIN environment_packages[p] :
              \E i \in (Len(cmds[p]) + 1)..Len(cmds'[p]) :
                  cmds'[p][i] = Op("list", e, "ok")]_vars

\* the in-process entry point of p raised SystemExit with a code that is
\* neither 0 nor absent
FailingStop(p) ==
    /\ InProcessEnded(p)
    /\ call[p].outcome.kind = "sysexit"
    /\ \/ call[p].outcome.isint /\ call[p].outcome.val # 0
       \/ call[p].outcome.text

\* C38: when the in-process entry point raises a stop signal whose code is
\* neither 0 nor absent, a non-integer code such as an error message
\* included, the result of the invocation is non-zero.
C38_FailingStopIsNonZero ==
    [][\A p \in Procs :
          (Finishes(p) /\ FailingStop(p)) =>
              \E code \in (ToolCodes \cup {1, 130}) \ {0} : ResultIs(p, code)]_vars

\* the states of a provisioning run, in the order of setup_environment:
\* Exists check, Shareable, Create, Install, Verify, then the terminal states
Stage(p) ==
    CASE pc[p] = "loop" -> 0
      [] pc[p] = "share" -> 1
      [] pc[p] = "create" -> 2
      [] pc[p] = "install" -> 3
      [] pc[p] = "verify" -> 4
      [] pc[p] \in {"dispatch", "failed"} -> 5
      [] OTHER -> 6

Provisioning(p) == pc[p] \in {"share", "create", "install", "verify"}

\* C39: when every external command and tool returns, a provisioning run
\* goes through Exists, Shareable, Create, Install, Verify in that order,
\* entering none twice, and reaches a terminal state (an interpreter path or
\* failure); a chain of n entries makes at most n tool invocations and the
\* process exits.
C39_ProvisioningAndChainTerminate ==
    /\ [][\A p \in Procs :
            (Provisioning(p) /\ <<pc[p], call[p], cmds[p]>>' # <<pc[p], call[p], cmds[p]>>) =>
                /\ Stage(p)' > Stage(p) /\ Stage(p)' <= 5
                /\ Len(ran'[p]) = Len(ran[p])]_vars
    /\ [][\A p \in Procs :
            (pc[p] = "loop" /\ pc'[p] # "loop" /\ Current(p) \in TOOLS_DIR) =>
                pc'[p] \in {"share", "dispatch"}]_vars
    /\ [](\A p \in Procs : Len(ran[p]) <= Len(tool_chain[p]))
    /\ (\E p \in Procs : Provisioning(p)) ~> (\E p \in Procs : pc[p] \in {"dispatch", "failed"})
    /\ <>(\A p \in Procs : pc[p] = "done" /\ Len(exited[p]) = 1)

\* C39 witness: a chain of two entries has exited after two invocations, the
\* second one provisioned through create, install and verify
C39_Witness ==
    \E p \in Procs :
        /\ pc[p] = "done" /\ Len(exited[p]) = 1
        /\ Len(tool_chain[p]) = 2 /\ Len(ran[p]) = 2
        /\ seen[p].returned = 2
        /\ ran[p][2].name = <<"a">>
        /\ fs[<<"a">>] = DirEnv(TRUE, {<<"p">>, <<"q">>})

\* C40: every entry returned by parse_tool_chain has a non-empty tool name,
\* whatever the input: empty segments yield no entry, and neither a segment
\* that starts with [ nor one of whitespace yields an entry named by the
\* empty string.
C40_EveryEntryIsNamed ==
    \A p \in Procs :
        Parsed(p) => \A i \in 1..Len(tool_chain[p]) : tool_chain[p][i].name # <<>>

====
